---- MODULE Spec2Model ----
(***************************************************************************)
(* Smart Video Controls: the parent-URL handshake between an iframe and    *)
(* the top-level document (modules/videoPositionManager.js,                *)
(* getParentPageUrl / setupParentUrlMessaging), the position store         *)
(* (saveVideoPosition / loadVideoPosition / migrateOldPositions /          *)
(* setupVideoPositionTracking) and the control relay                       *)
(* (modules/parentPageHandler.js controlIframeVideos, and the message and  *)
(* keyboard handlers of the iframe video handler).                         *)
(*                                                                         *)
(* The specifications share the variables:                                 *)
(*   ResolverSpec / ResolverFairSpec  - one iframe and its top document    *)
(*   ResolverStraySpec                - the iframe, no responder, foreign  *)
(*                                      messages                           *)
(*   StoreSpec                        - one tracked video, chrome.storage  *)
(*   RelaySpec                        - the top document's iframes and the *)
(*                                      videos of the first iframe         *)
(*   ResolverFaultSpec                - the iframe when it is detached     *)
(*   StoreFaultSpec                   - the store with failing storage     *)
(*                                      calls                              *)
(*   LoadSpec                         - the lookup of a stored record      *)
(*   FrameTrackSpec                   - a tracked video in an iframe       *)
(*   KeySpec                          - generateVideoKey in two documents  *)
(*   BootSpec                         - start-up of the content scripts in *)
(*                                      one document, its key events and   *)
(*                                      the requests of its child frames   *)
(*   CommandSpec                      - a document after start-up: keys,   *)
(*                                      popup commands, added iframes      *)
(***************************************************************************)
EXTENDS Integers, Sequences, FiniteSets, TLC

(***************************************************************************)
(* Bounds of the model.                                                    *)
(***************************************************************************)
MaxRes == 2
MaxStartTime == 300
TickStep == 300
MaxStray == 1
MaxSetup == 1

(***************************************************************************)
(* Program constants.                                                      *)
(***************************************************************************)
TimeoutMs == 1000
RetryMs == 300

(***************************************************************************)
(* URL strings.  A string is modelled by its parts; wellFormed says        *)
(* whether `new URL(s)` accepts it.  new URL normalises an empty path to   *)
(* "/", so parsing and re-serialising is not the identity.                 *)
(***************************************************************************)
UrlText(o, p, q, h) ==
  [wellFormed |-> TRUE, origin |-> o, pathname |-> p, search |-> q, hash |-> h]

EmptyString ==
  [wellFormed |-> FALSE, origin |-> "", pathname |-> "", search |-> <<>>, hash |-> ""]

Garbage ==
  [wellFormed |-> FALSE, origin |-> "not a url", pathname |-> "", search |-> <<>>, hash |-> ""]

TopUrl == UrlText("https://site.example", "/watch", <<<<"v", "1">>, <<"t", "9">>>>, "#c")
SelfUrl == UrlText("https://player.example", "/embed/7", <<>>, "")
RefPath == UrlText("https://site.example", "/watch", <<>>, "")
RefBare == UrlText("https://site.example", "/", <<>>, "")
EvilUrl == UrlText("https://evil.example", "", <<>>, "")

Referrers == {EmptyString, RefBare, RefPath}

\* new URL(s): defined only when s.wellFormed (otherwise it throws)
ParseURL(s) ==
  [origin |-> s.origin,
   pathname |-> IF s.pathname = "" THEN "/" ELSE s.pathname,
   search |-> s.search,
   hash |-> s.hash]

\* url.href: the parsed URL written out again
Href(u) == UrlText(u.origin, u.pathname, u.search, u.hash)

VARIABLES
  inIframe,       \* window.self !== window.top in the frame that resolves
  referrer,       \* document.referrer of the frame
  clock,          \* Date.now(), in ms
  res,            \* the getParentPageUrl calls of the frame
  toParent,       \* messages posted to window.parent, not yet dispatched
  toFrame,        \* messages posted to the frame, not yet dispatched
  parentHandler,  \* window._parentUrlMessageHandler is set in the top document
  responderListeners, \* number of responder listeners registered on the top window
  setupCalls,     \* calls of setupParentUrlMessaging so far
  strays,         \* parent-url-response messages posted by other scripts so far
  pageUrl,        \* window.location.href of the document that holds the video
  videoEl,        \* the video element: id, source src, src, index in the document
  video,          \* its currentTime, duration and paused
  intervalOn,     \* saveInterval of setupVideoPositionTracking is set
  storage,        \* chrome.storage.local
  storageOps,     \* chrome.storage.local calls issued, not yet completed
  reloaded,       \* the page has been left and loaded again (kept for the properties)
  saves,          \* records written so far; the time of `new Date()`
  saveLog,        \* the latest saveVideoPosition call (kept for the properties)
  lastLoad,       \* the outcome of the latest lookup of loadVideoPosition (same)
  lastSaved,      \* the record of the latest completed save (same)
  migrations,     \* records migrateOldPositions has copied to a new key (same)
  loadOps,        \* storage calls completed for the page's loadVideoPosition (same)
  storageErrors,  \* storage calls that ended with chrome.runtime.lastError (same)
  iframes,        \* the iframe elements of the top-level document
  frameVideos,    \* the video elements of the document in the first iframe
  toIframe,       \* messages posted to the first iframe's window, not yet dispatched
  toTop,          \* messages that frame posted to window.parent, not yet dispatched
  controls,       \* calls of the top document that post to iframes so far
  keys,           \* keydown events in the frame so far
  lastControl,    \* the latest controlIframeVideos call (kept for the properties)
  lastAssigned,   \* the latest value the frame assigned to video.currentTime (same)
  awaiting,       \* saveVideoPosition calls of the frame suspended at `await generateVideoKey`
  unloading,      \* 'beforeunload' has been dispatched in the frame
  unloaded,       \* the frame's document is gone
  frameLog,       \* the saveVideoPosition calls of the frame that are over (kept for the properties)
  ownerUrls,      \* window.location.href of two top-level documents
  videoKeys,      \* the keys generateVideoKey returned in them, once it has run
  readyState,     \* document.readyState of the document the content scripts run in
  boot,           \* the flags, listeners and timers the content scripts have set there
  lastKey,        \* the latest Alt+Arrow keydown of that document (kept for the properties)
  lastReply       \* the latest sendResponse of its chrome.runtime.onMessage listener (same)

resolverVars == <<inIframe, referrer, clock, res, toParent, toFrame,
                  parentHandler, responderListeners, setupCalls, strays>>

storeVars == <<pageUrl, videoEl, video, intervalOn, storage, storageOps,
               reloaded, saves, saveLog, lastLoad, lastSaved, migrations, loadOps, storageErrors>>

relayVars == <<iframes, frameVideos, toIframe, toTop, controls, keys,
               lastControl, lastAssigned>>

pageVars == <<awaiting, unloading, unloaded, frameLog, ownerUrls, videoKeys,
              readyState, boot, lastKey, lastReply>>
vars == <<resolverVars, storeVars, relayVars, pageVars>>

NoCorr == -1

IdleRes ==
  [state |-> "idle", value |-> EmptyString, by |-> "none",
   listening |-> FALSE, timeoutArmed |-> FALSE, timeoutAt |-> 0,
   retryArmed |-> FALSE, retryAt |-> 0, receivedResponse |-> FALSE,
   sent |-> {}, handled |-> 0, lateHandled |-> 0, corr |-> NoCorr,
   timeoutFired |-> FALSE, answers |-> 0, firstValid |-> EmptyString]

\* resolve(v) of the Promise created at line 48: only the first call settles
ResolveBroken(r, v, how) == [r EXCEPT !.state = "settled", !.value = v, !.by = how]
Resolve(r, v, how) ==
  IF r.state = "settled" THEN r
  ELSE [r EXCEPT !.state = "settled", !.value = v, !.by = how]

\* the fallback of lines 75-81 and 104-108
FallbackBroken(ref) == ref
Fallback(ref) == IF ref # EmptyString THEN ref ELSE SelfUrl

Request(ts, isRetry) ==
  [type |-> "get-parent-url", from |-> SelfUrl, timestamp |-> ts, retry |-> isRetry]

Response(u, ts, corr) ==
  [type |-> "parent-url-response", url |-> u, timestamp |-> ts, responseToRequest |-> corr]


(***************************************************************************)
(* Numbers.  NaN is a value of its own; every comparison with NaN is       *)
(* false, as in JavaScript.                                                *)
(***************************************************************************)
NaN == -1

IsNaN(x) == x = NaN
JsGt(a, b) == ~IsNaN(a) /\ ~IsNaN(b) /\ a > b
\* a number used as a condition: 0 and NaN are falsy
Truthy(x) == ~IsNaN(x) /\ x # 0
Max(a, b) == IF a >= b THEN a ELSE b

(***************************************************************************)
(* KeyGenerator: generateSelector, hashString, generateVideoKey.           *)
(* A string that is split at '#' is modelled by its parts: a key is the    *)
(* text before the first '#' (url) and the '#'-separated parts after it.   *)
(***************************************************************************)
Seg(tag, n) == [tag |-> tag, n |-> n]

RECURSIVE HashFrom(_, _, _)
HashFrom(str, i, hash) ==
  IF i > Len(str) THEN hash
  ELSE HashFrom(str, i + 1, ((hash * 32) - hash) + str[i])

\* hashString(str), lines 249-260; a string is the sequence of its char codes.
\* The strings of the model have at most four characters, so hash << 5 and
\* the sum stay below 2^31 and `hash & hash` leaves the value as it is.
\* |hash| < 2^31 < 36^8, so substring(0, 8) keeps every base-36 digit.
HashString(str) ==
  IF Len(str) = 0 THEN 0
  ELSE LET hash == HashFrom(str, 1, 0)
       IN IF hash < 0 THEN 0 - hash ELSE hash

\* generateSelector(video), lines 215-242, as the '#'-separated parts of the
\* selector ("#id" splits into "" and "id")
GenerateSelector(v) ==
  IF v.id # "" THEN <<Seg("", 0), Seg(v.id, 0)>>
  ELSE IF Len(v.sourceSrc) > 0 THEN <<Seg("video-src-", HashString(v.sourceSrc))>>
  ELSE IF Len(v.src) > 0 THEN <<Seg("video-src-", HashString(v.src))>>
  ELSE <<Seg("video-", v.index)>>

ImportantParams == <<"v", "id", "video", "vid", "movie", "episode">>

ParamHas(q, p) == \E i \in 1..Len(q) : q[i][1] = p
ParamGet(q, p) ==
  q[CHOOSE i \in 1..Len(q) : q[i][1] = p /\ \A j \in 1..(i - 1) : q[j][1] # p][2]

\* lines 176-187: the allow-listed parameters, in the order of the allow-list
ImportantOf(q) ==
  LET present == SelectSeq(ImportantParams, LAMBDA p : ParamHas(q, p))
  IN [i \in 1..Len(present) |-> <<present[i], ParamGet(q, present[i])>>]

KeyString(urlText, parts) == [url |-> urlText, parts |-> parts]

\* generateVideoKey(video), lines 153-208, for the resolved parentUrl
GenerateVideoKey(parentUrl, v) ==
  IF parentUrl.wellFormed
    THEN LET url == ParseURL(parentUrl)
             hasPath == url.pathname # "" /\ url.pathname # "/"
             stableUrl == IF hasPath
                            THEN UrlText(url.origin, url.pathname, ImportantOf(url.search), "")
                            ELSE UrlText(url.origin, "", <<>>, "")
         IN KeyString(stableUrl, GenerateSelector(v))
    ELSE KeyString(parentUrl, GenerateSelector(v))

\* the old style key of migrateOldPositions, lines 596-600:
\* [url, videoSelector] = videoKey.split('#'); `${origin}#${videoSelector}`
OldKeyOf(videoKey) ==
  KeyString(UrlText(ParseURL(videoKey.url).origin, "", <<>>, ""), <<videoKey.parts[1]>>)

\* the key format of earlier versions: domain only, then '#', then the selector
LegacyKeyOf(parentUrl, v) ==
  KeyString(UrlText(ParseURL(parentUrl).origin, "", <<>>, ""), GenerateSelector(v))

(***************************************************************************)
(* PositionStore: records and chrome.storage.local calls.                  *)
(***************************************************************************)
NoRecord == [timestamp |-> NaN, duration |-> NaN, lastPlayed |-> NaN]

PositionRecord(t, d, played) == [timestamp |-> t, duration |-> d, lastPlayed |-> played]

NoKey == KeyString(EmptyString, <<>>)

\* `other` is the second key a migration callback works with
StorageCall(kind, key, data, cb, other) ==
  [kind |-> kind, key |-> key, data |-> data, cb |-> cb, other |-> other]

BarePage == UrlText("https://site.example", "/", <<>>, "")
PageUrls == {TopUrl, BarePage}

VideoWithId == [id |-> "player", sourceSrc |-> <<>>, src |-> <<>>, index |-> 0]
VideoWithSrc == [id |-> "", sourceSrc |-> <<>>, src |-> <<47, 97, 46, 109>>, index |-> 0]
VideoElements == {VideoWithId, VideoWithSrc}

NoSave == [event |-> "none", currentTime |-> 0, wrote |-> FALSE]
NoLoad == [result |-> "none", data |-> NoRecord]

\* the store when the specification is about the resolver only
StoreIdle ==
  /\ pageUrl = TopUrl
  /\ videoEl = VideoWithId
  /\ video = [currentTime |-> 0, duration |-> NaN, paused |-> TRUE]
  /\ intervalOn = FALSE
  /\ storage = [k \in {} |-> NoRecord]
  /\ storageOps = <<>>
  /\ reloaded = FALSE
  /\ saves = 0
  /\ saveLog = NoSave
  /\ lastLoad = NoLoad
  /\ lastSaved = NoRecord
  /\ migrations = 0
  /\ loadOps = 0
  /\ storageErrors = 0

NoControl == [called |-> FALSE, action |-> "", targets |-> {}, posted |-> {},
              returned |-> FALSE]
NoAssignment == [by |-> "none", value |-> 0]

\* the content scripts of a document before modules/main.js has run
NoBoot ==
  [scriptRun |-> FALSE, domListener |-> FALSE, loadListener |-> FALSE, loadTimers |-> 0,
   smartVideoControlsInitialized |-> FALSE, iframeHandlerInitialized |-> FALSE,
   keyboardHandlerInstalled |-> FALSE, directHandlerInitialized |-> FALSE,
   parentShortcutsInitialized |-> FALSE, messageListenerAttached |-> FALSE,
   keyListeners |-> <<>>, runtimeListeners |-> 0,
   bodyRuns |-> 0, iframeSetups |-> 0, directSetups |-> 0, parentSetups |-> 0,
   shortcutSetups |-> 0, trackings |-> 0, messageListeners |-> 0, loadListeners |-> 0]

NoKeyPress == [code |-> "", applied |-> 0, assigned |-> <<>>]

\* no sendResponse call; `route` is where the command went, action and
\* seconds are those of the request
NoReply == [answered |-> FALSE, success |-> FALSE, route |-> "none",
            action |-> "", seconds |-> 0]

\* a saveVideoPosition call: none suspended
NoAwait == [event |-> "none", currentTime |-> 0]

\* the tracked video of a frame, key generation and the start-up of the
\* content scripts when the specification is not about them
PageIdle ==
  /\ awaiting = [r \in 1..MaxRes |-> NoAwait]
  /\ unloading = FALSE
  /\ unloaded = FALSE
  /\ frameLog = {}
  /\ ownerUrls = <<>>
  /\ videoKeys = <<>>
  /\ readyState = "complete"
  /\ boot = NoBoot
  /\ lastKey = NoKeyPress
  /\ lastReply = NoReply

\* the relay when the specification is about the resolver or the store only
RelayIdle ==
  /\ iframes = <<>>
  /\ frameVideos = <<>>
  /\ toIframe = <<>>
  /\ toTop = <<>>
  /\ controls = 0
  /\ keys = 0
  /\ lastControl = NoControl
  /\ lastAssigned = NoAssignment

(***************************************************************************)
(* ParentUrlResolver, iframe side: getParentPageUrl.                       *)
(***************************************************************************)
Started(r) == res[r].state # "idle"

\* referrerPath && referrerPath !== '/'  (lines 59-60)
HasPath(s) == ParseURL(s).pathname # "" /\ ParseURL(s).pathname # "/"

\* the next call of getParentPageUrl gets the lowest unused slot
NextSlot(r) == ~Started(r) /\ \A q \in 1..MaxRes : q < r => Started(q)

\* One call of getParentPageUrl, up to the return of the executor.
GetParentPageUrl(r) ==
  /\ NextSlot(r)
  /\ clock <= MaxStartTime
  /\ IF ~inIframe
       THEN \* lines 136-138
            /\ res' = [res EXCEPT ![r] = Resolve(IdleRes, SelfUrl, "top")]
            /\ UNCHANGED toParent
       ELSE IF referrer # EmptyString /\ HasPath(referrer)
         THEN \* lines 56-63: resolve(referrerUrl); return
              /\ res' = [res EXCEPT ![r] = Resolve(IdleRes, referrer, "referrer")]
              /\ UNCHANGED toParent
         ELSE \* lines 73-134
              /\ res' = [res EXCEPT ![r] =
                   [IdleRes EXCEPT !.state = "pending",
                                   !.timeoutArmed = TRUE,
                                   !.timeoutAt = clock + TimeoutMs,
                                   !.listening = TRUE,
                                   !.retryArmed = TRUE,
                                   !.retryAt = clock + RetryMs,
                                   !.sent = {clock}]]
              /\ toParent' = Append(toParent, Request(clock, FALSE))
  /\ UNCHANGED <<inIframe, referrer, clock, toFrame, parentHandler,
                 responderListeners, setupCalls, strays>>

\* a call of getParentPageUrl on its own
StartResolution(r) ==
  /\ GetParentPageUrl(r)
  /\ UNCHANGED storeVars
  /\ UNCHANGED relayVars
  /\ UNCHANGED pageVars

\* the setTimeout callback of lines 73-82
TimeoutFire(r) ==
  /\ res[r].timeoutArmed
  /\ clock >= res[r].timeoutAt
  /\ res' = [res EXCEPT ![r] =
       [Resolve(res[r], Fallback(referrer), "timeout")
          EXCEPT !.timeoutArmed = FALSE, !.timeoutFired = TRUE]]
  /\ UNCHANGED <<inIframe, referrer, clock, toParent, toFrame, parentHandler,
                 responderListeners, setupCalls, strays>>
  /\ UNCHANGED storeVars
  /\ UNCHANGED relayVars
  /\ UNCHANGED pageVars

\* if (!receivedResponse), line 125
ShouldRetryBroken(r) == TRUE
ShouldRetry(r) == ~r.receivedResponse

\* the setTimeout callback of lines 124-134
RetryFire(r) ==
  /\ res[r].retryArmed
  /\ clock >= res[r].retryAt
  /\ IF ShouldRetry(res[r])
       THEN /\ toParent' = Append(toParent, Request(clock, TRUE))
            /\ res' = [res EXCEPT ![r].retryArmed = FALSE,
                                  ![r].sent = @ \cup {clock}]
       ELSE /\ res' = [res EXCEPT ![r].retryArmed = FALSE]
            /\ UNCHANGED toParent
  /\ UNCHANGED <<inIframe, referrer, clock, toFrame, parentHandler,
                 responderListeners, setupCalls, strays>>
  /\ UNCHANGED storeVars
  /\ UNCHANGED relayVars
  /\ UNCHANGED pageVars

\* clearTimeout(timeoutId) of line 91
ClearTimeoutBroken(r) == r
ClearTimeout(r) == [r EXCEPT !.timeoutArmed = FALSE]

\* window.removeEventListener('message', handler) of line 100
RemoveListenerBroken(r) == r
RemoveListener(r) == [r EXCEPT !.listening = FALSE]

\* the message handler of lines 88-111, for one resolution r and message m
Handler(r, m) ==
  IF m.type # "parent-url-response" THEN r
  ELSE LET seen == [ClearTimeout(r) EXCEPT
                      !.receivedResponse = TRUE,
                      !.handled = @ + 1,
                      !.lateHandled = IF r.state = "settled" THEN @ + 1 ELSE @,
                      !.corr = IF r.state = "settled" THEN @ ELSE m.responseToRequest]
       IN IF m.url.wellFormed
            THEN Resolve(RemoveListener(seen), Href(ParseURL(m.url)), "response")
            ELSE Resolve(seen, Fallback(referrer), "malformed")

\* what the frame has seen, kept for the properties (not program state)
Observe(r, m) ==
  IF m.type = "parent-url-response" /\ r.state # "idle" /\ r.by \notin {"top", "referrer"}
    THEN [r EXCEPT !.answers = IF m.responseToRequest \in r.sent THEN @ + 1 ELSE @,
                   !.firstValid = IF @ = EmptyString /\ m.url.wellFormed
                                    THEN m.url ELSE @]
    ELSE r

\* One 'message' event in the frame: every registered handler runs on it.
FrameDeliver ==
  /\ toFrame # <<>>
  /\ LET m == Head(toFrame)
     IN res' = [r \in 1..MaxRes |->
                  IF res[r].listening THEN Handler(Observe(res[r], m), m)
                  ELSE Observe(res[r], m)]
  /\ toFrame' = Tail(toFrame)
  /\ UNCHANGED <<inIframe, referrer, clock, toParent, parentHandler,
                 responderListeners, setupCalls, strays>>
  /\ UNCHANGED storeVars
  /\ UNCHANGED relayVars
  /\ UNCHANGED pageVars

(***************************************************************************)
(* ParentUrlResolver, top-level side: setupParentUrlMessaging.             *)
(***************************************************************************)
\* the reply of lines 474-479
ReplyBroken(m) == Response(TopUrl, clock, clock)
Reply(m) == Response(TopUrl, clock, m.timestamp)

\* window.removeEventListener('message', window._parentUrlMessageHandler),
\* lines 454-457, on the responder [handler, listeners] of a window
RemoveExistingBroken(w) == w
RemoveExisting(w) ==
  IF w.handler THEN [w EXCEPT !.listeners = @ - 1] ELSE w

\* one call of setupParentUrlMessaging (lines 448-499) in a window that is
\* the top one or not
SetupMessagingIn(top, w) ==
  IF top
    THEN [handler |-> TRUE, listeners |-> RemoveExisting(w).listeners + 1]
    ELSE w

\* setupParentUrlMessaging in the top document (lines 450-495)
SetupParentUrlMessaging ==
  /\ setupCalls < MaxSetup
  /\ setupCalls' = setupCalls + 1
  /\ LET w == SetupMessagingIn(TRUE, [handler |-> parentHandler,
                                      listeners |-> responderListeners])
     IN /\ parentHandler' = w.handler
        /\ responderListeners' = w.listeners
  /\ UNCHANGED <<inIframe, referrer, clock, res, toParent, toFrame, strays>>
  /\ UNCHANGED storeVars
  /\ UNCHANGED relayVars
  /\ UNCHANGED pageVars

\* One 'message' event in the top document: every registered responder
\* listener (lines 460-486) runs on it; with none the message is dropped.
ParentReceive ==
  /\ toParent # <<>>
  /\ LET m == Head(toParent)
     IN toFrame' = IF m.type = "get-parent-url"
                     THEN toFrame \o [i \in 1..responderListeners |-> Reply(m)]
                     ELSE toFrame
  /\ toParent' = Tail(toParent)
  /\ UNCHANGED <<inIframe, referrer, clock, res, parentHandler,
                 responderListeners, setupCalls, strays>>
  /\ UNCHANGED storeVars
  /\ UNCHANGED relayVars
  /\ UNCHANGED pageVars

\* Another script posts a parent-url-response to the frame (messages are
\* accepted from any origin, handler line 90).
StrayResponse ==
  /\ strays < MaxStray
  /\ \E r \in 1..MaxRes : res[r].listening
  /\ \E u \in {EvilUrl, Garbage} :
       toFrame' = Append(toFrame, Response(u, 0, NoCorr))
  /\ strays' = strays + 1
  /\ UNCHANGED <<inIframe, referrer, clock, res, toParent, parentHandler,
                 responderListeners, setupCalls>>
  /\ UNCHANGED storeVars
  /\ UNCHANGED relayVars
  /\ UNCHANGED pageVars

\* Time passes while a timer is armed; a timer that is due runs before time
\* passes further.
TimerArmed == \E r \in 1..MaxRes : res[r].timeoutArmed \/ res[r].retryArmed

TimerDue ==
  \E r \in 1..MaxRes :
    \/ res[r].timeoutArmed /\ clock >= res[r].timeoutAt
    \/ res[r].retryArmed /\ clock >= res[r].retryAt

Tick ==
  /\ TimerArmed
  /\ ~TimerDue
  /\ clock' = clock + TickStep
  /\ UNCHANGED <<inIframe, referrer, res, toParent, toFrame, parentHandler,
                 responderListeners, setupCalls, strays>>
  /\ UNCHANGED storeVars
  /\ UNCHANGED relayVars
  /\ UNCHANGED pageVars

ResolverInit ==
  /\ inIframe = TRUE
  /\ referrer \in Referrers
  /\ clock = 0
  /\ res = [r \in 1..MaxRes |-> IdleRes]
  /\ toParent = <<>>
  /\ toFrame = <<>>
  /\ parentHandler = FALSE
  /\ responderListeners = 0
  /\ setupCalls = 0
  /\ strays = 0
  /\ StoreIdle
  /\ RelayIdle
  /\ PageIdle

ResolverNext ==
  \/ \E r \in 1..MaxRes : StartResolution(r)
  \/ \E r \in 1..MaxRes : TimeoutFire(r)
  \/ \E r \in 1..MaxRes : RetryFire(r)
  \/ FrameDeliver
  \/ SetupParentUrlMessaging
  \/ ParentReceive
  \/ Tick

ResolverSpec == ResolverInit /\ [][ResolverNext]_vars

\* The frame in a page whose top document has no responder registered, while
\* other scripts post to the frame: the requests are dropped.
ResolverStraySpec ==
  ResolverInit /\
  [][\/ \E r \in 1..MaxRes : StartResolution(r)
     \/ \E r \in 1..MaxRes : TimeoutFire(r)
     \/ \E r \in 1..MaxRes : RetryFire(r)
     \/ FrameDeliver
     \/ ParentReceive
     \/ StrayResponse
     \/ Tick]_vars

\* resolve(window.location.href) of the catch, lines 140-144
ErrorFallbackBroken == referrer
ErrorFallback == SelfUrl

\* One call of getParentPageUrl in a frame that has been detached from its
\* page: window.parent is null, so after the timeout is armed (line 73) and
\* the handler registered (line 113) the postMessage of line 117 throws and
\* the catch of lines 140-144 resolves.
StartResolutionFails(r) ==
  /\ NextSlot(r)
  /\ clock <= MaxStartTime
  /\ res' = [res EXCEPT ![r] =
       Resolve([IdleRes EXCEPT !.state = "pending",
                               !.timeoutArmed = TRUE,
                               !.timeoutAt = clock + TimeoutMs,
                               !.listening = TRUE],
               ErrorFallback, "error")]
  /\ UNCHANGED <<inIframe, referrer, clock, toParent, toFrame, parentHandler,
                 responderListeners, setupCalls, strays>>
  /\ UNCHANGED storeVars
  /\ UNCHANGED relayVars
  /\ UNCHANGED pageVars

\* The detached frame: its calls fail, its timers still run and other
\* scripts may post to it.
ResolverFaultSpec ==
  ResolverInit /\
  [][\/ \E r \in 1..MaxRes : StartResolutionFails(r)
     \/ \E r \in 1..MaxRes : TimeoutFire(r)
     \/ FrameDeliver
     \/ StrayResponse
     \/ Tick]_vars

\* Timers that are due run, time passes, and posted messages are dispatched.
ResolverFairSpec ==
  /\ ResolverSpec
  /\ WF_vars(Tick)
  /\ \A r \in 1..MaxRes : WF_vars(TimeoutFire(r))
  /\ \A r \in 1..MaxRes : WF_vars(RetryFire(r))


(***************************************************************************)
(* PositionStore in the top-level document: saveVideoPosition,             *)
(* loadVideoPosition, migrateOldPositions, setupVideoPositionTracking.     *)
(* In the top-level document getParentPageUrl resolves at once with        *)
(* window.location.href, so the awaits of generateVideoKey finish in       *)
(* microtasks of the event that called save or load: no other event runs   *)
(* in between.  chrome.storage.local serves the calls of a page in the     *)
(* order they were issued.                                                 *)
(***************************************************************************)
MaxSaves == 2

TrailingWindow == 10
Rollback == 2

Times == {0, 120, 595}

VideoKey == GenerateVideoKey(pageUrl, videoEl)

Stored(k) == IF k \in DOMAIN storage THEN storage[k] ELSE NoRecord

\* currentTime > 0 && !isNaN(currentTime), line 278
ShouldSaveBroken(currentTime) == ~JsGt(0, currentTime)
ShouldSave(currentTime) == JsGt(currentTime, 0) /\ ~IsNaN(currentTime)

\* The chrome.storage.local.set calls of n successive saveVideoPosition(video)
\* calls in one event (lines 266-303), for the video as it is after the event.
SaveCalls(v, n) ==
  IF ShouldSave(v.currentTime)
    THEN [i \in 1..n |->
            StorageCall("set", VideoKey,
                        PositionRecord(v.currentTime, v.duration, saves + i),
                        "save", NoKey)]
    ELSE <<>>

\* `saves` stands for the time of day: the model stops writing at MaxSaves
CanSave(v, n) == saves + Len(SaveCalls(v, n)) <= MaxSaves

SaveEffect(v, n, event) ==
  /\ storageOps' = storageOps \o SaveCalls(v, n)
  /\ saves' = saves + Len(SaveCalls(v, n))
  /\ saveLog' = [event |-> event, currentTime |-> v.currentTime,
                 wrote |-> SaveCalls(v, n) # <<>>]

\* the chrome.storage.local.get of loadVideoPosition, lines 317-321
LoadCall == StorageCall("get", VideoKey, NoRecord, "load", NoKey)

\* the 'play' listener, lines 412-422
Play ==
  /\ video.paused
  /\ video' = [video EXCEPT !.paused = FALSE]
  /\ intervalOn' = TRUE
  /\ UNCHANGED <<pageUrl, videoEl, storage, storageOps, reloaded, saves,
                 saveLog, lastLoad, lastSaved, migrations, loadOps, storageErrors>>
  /\ UNCHANGED resolverVars
  /\ UNCHANGED relayVars
  /\ UNCHANGED pageVars

\* playback or a seek moves the position
Seek(t) ==
  /\ t # video.currentTime
  /\ video' = [video EXCEPT !.currentTime = t]
  /\ UNCHANGED <<pageUrl, videoEl, intervalOn, storage, storageOps, reloaded, saves,
                 saveLog, lastLoad, lastSaved, migrations, loadOps, storageErrors>>
  /\ UNCHANGED resolverVars
  /\ UNCHANGED relayVars
  /\ UNCHANGED pageVars

\* saveInterval after clearInterval(saveInterval); saveInterval = null,
\* lines 425-429 and 434-438
ClearIntervalBroken == intervalOn
ClearInterval == FALSE

\* the two 'pause' listeners, lines 387-390 and 424-430
Pause ==
  /\ ~video.paused
  /\ video' = [video EXCEPT !.paused = TRUE]
  /\ CanSave(video', 1)
  /\ SaveEffect(video', 1, "pause")
  /\ intervalOn' = ClearInterval
  /\ UNCHANGED <<pageUrl, videoEl, storage, reloaded, lastLoad, lastSaved, migrations, loadOps, storageErrors>>
  /\ UNCHANGED resolverVars
  /\ UNCHANGED relayVars
  /\ UNCHANGED pageVars

\* the setInterval callback, lines 415-420
PeriodicSave ==
  /\ intervalOn
  /\ CanSave(video, 1)
  /\ IF ~video.paused
       THEN SaveEffect(video, 1, "periodic")
       ELSE UNCHANGED <<storageOps, saves, saveLog>>
  /\ UNCHANGED <<pageUrl, videoEl, video, intervalOn, storage, reloaded,
                 lastLoad, lastSaved, migrations, loadOps, storageErrors>>
  /\ UNCHANGED resolverVars
  /\ UNCHANGED relayVars
  /\ UNCHANGED pageVars

\* Playback reaches the end: the element sets paused, fires 'pause' and then
\* 'ended'; the 'pause' listeners and the 'ended' listener (lines 433-440) run.
Ended ==
  /\ ~video.paused
  /\ ~IsNaN(video.duration)
  /\ video' = [video EXCEPT !.paused = TRUE, !.currentTime = video.duration]
  /\ CanSave(video', 2)
  /\ SaveEffect(video', 2, "ended")
  /\ intervalOn' = ClearInterval
  /\ UNCHANGED <<pageUrl, videoEl, storage, reloaded, lastLoad, lastSaved, migrations, loadOps, storageErrors>>
  /\ UNCHANGED resolverVars
  /\ UNCHANGED relayVars
  /\ UNCHANGED pageVars

\* a call issued by a page that is gone: it is still served, its callback is not run
Orphan(op) == [op EXCEPT !.cb = IF op.cb = "save" THEN "save" ELSE "none"]

\* The page is left and loaded again: the 'beforeunload' listener (lines 400-407)
\* saves, the callbacks of the old page are gone, the new document starts at 0
\* and initVideoPositionManager tracks the video (lines 375-384, 537-543).
Reload ==
  /\ CanSave(video, 1)
  /\ reloaded' = TRUE
  /\ LET issued == storageOps \o SaveCalls(video, 1)
         kept == SelectSeq(issued, LAMBDA op : op.kind # "get")
     IN storageOps' = [i \in 1..Len(kept) |-> Orphan(kept[i])] \o <<LoadCall>>
  /\ saves' = saves + Len(SaveCalls(video, 1))
  /\ saveLog' = [event |-> "unload", currentTime |-> video.currentTime,
                 wrote |-> SaveCalls(video, 1) # <<>>]
  /\ video' = [video EXCEPT !.currentTime = 0, !.paused = TRUE]
  /\ intervalOn' = FALSE
  /\ lastLoad' = NoLoad
  /\ loadOps' = 0
  /\ UNCHANGED <<pageUrl, videoEl, storage, lastSaved, migrations, storageErrors>>
  /\ UNCHANGED resolverVars
  /\ UNCHANGED relayVars
  /\ UNCHANGED pageVars

\* Math.max(0, data.timestamp - 2), line 334
ResumeTimeBroken(t) == t
ResumeTime(t) == Max(0, t - Rollback)

\* data.duration && data.timestamp > data.duration - 10, line 337
NearEndBroken(data) == FALSE
NearEnd(data) == Truthy(data.duration) /\ JsGt(data.timestamp, data.duration - TrailingWindow)

\* if (migrated), line 357
ShouldReloadBroken(migrated) == TRUE
ShouldReload(migrated) == migrated

\* lines 356-363, after `await migrateOldPositions(videoKey)` has returned:
\* load again or end without a position
AfterMigration(migrated) ==
  IF ShouldReload(migrated)
    THEN /\ storageOps' = Append(Tail(storageOps), LoadCall)
         /\ UNCHANGED lastLoad
    ELSE /\ storageOps' = Tail(storageOps)
         /\ lastLoad' = [result |-> "absent", data |-> NoRecord]

\* The callback of chrome.storage.local.get in loadVideoPosition (lines 321-365)
\* up to its first await, for the record found under the key.
LoadCallback(op, found) ==
  IF found # NoRecord
    THEN /\ IF JsGt(found.timestamp, 0) /\ ~IsNaN(found.timestamp) /\ ~NearEnd(found)
              THEN /\ video' = [video EXCEPT !.currentTime = ResumeTime(found.timestamp)]
                   /\ lastLoad' = [result |-> "resumed", data |-> found]
              ELSE /\ lastLoad' = [result |-> "notResumed", data |-> found]
                   /\ UNCHANGED video
         /\ storageOps' = Tail(storageOps)
    ELSE \* migrateOldPositions(videoKey), lines 592-611
         /\ UNCHANGED video
         /\ IF op.key.url.wellFormed /\ Len(op.key.parts) > 0 /\ OldKeyOf(op.key) # op.key
              THEN /\ storageOps' = Append(Tail(storageOps),
                        StorageCall("get", OldKeyOf(op.key), NoRecord, "migGet", op.key))
                   /\ lastLoad' = [result |-> "migrating", data |-> NoRecord]
              ELSE AfterMigration(FALSE)

\* The callback of the copy to the new key, lines 625-639: the calls it
\* issues.  The old key is removed only if the copy ended without lastError.
RemoveOldKeyBroken(op, failed) ==
  <<StorageCall("remove", op.other, NoRecord, "migRemove", op.key)>>
RemoveOldKey(op, failed) ==
  IF failed THEN <<>>
  ELSE <<StorageCall("remove", op.other, NoRecord, "migRemove", op.key)>>

\* the callbacks of loadVideoPosition and of the migration it starts
LoadCallbacks == {"load", "migGet", "migSet", "migRemove"}

\* chrome.storage.local completes the oldest call and runs its callback.
StorageComplete ==
  /\ storageOps # <<>>
  /\ LET op == Head(storageOps)
         found == Stored(op.key)
     IN /\ storage' = IF op.kind = "set"
                        THEN [k \in DOMAIN storage \cup {op.key} |->
                                IF k = op.key THEN op.data ELSE storage[k]]
                      ELSE IF op.kind = "remove"
                        THEN [k \in DOMAIN storage \ {op.key} |-> storage[k]]
                      ELSE storage
        /\ lastSaved' = IF op.cb = "save" THEN op.data ELSE lastSaved
        /\ migrations' = IF op.cb = "migSet" THEN migrations + 1 ELSE migrations
        /\ loadOps' = IF op.cb \in LoadCallbacks THEN loadOps + 1 ELSE loadOps
        /\ CASE op.cb = "load" -> LoadCallback(op, found)
             [] op.cb = "migGet" ->
                  \* lines 611-645
                  /\ UNCHANGED video
                  /\ IF found # NoRecord
                       THEN /\ storageOps' = Append(Tail(storageOps),
                                 StorageCall("set", op.other, found, "migSet", op.key))
                            /\ UNCHANGED lastLoad
                       ELSE AfterMigration(FALSE)
             [] op.cb = "migSet" ->
                  \* lines 625-639: remove the old key
                  /\ storageOps' = Tail(storageOps) \o RemoveOldKey(op, FALSE)
                  /\ UNCHANGED <<video, lastLoad>>
             [] op.cb = "migRemove" ->
                  \* lines 633-638, then lines 357-360: loadVideoPosition(video) again
                  /\ AfterMigration(TRUE)
                  /\ UNCHANGED video
             [] OTHER ->
                  /\ storageOps' = Tail(storageOps)
                  /\ UNCHANGED <<video, lastLoad>>
  /\ UNCHANGED <<pageUrl, videoEl, intervalOn, reloaded, saves, saveLog, storageErrors>>
  /\ UNCHANGED resolverVars
  /\ UNCHANGED relayVars
  /\ UNCHANGED pageVars

MaxErrors == 1

\* chrome.storage.local after a call that ended with lastError: nothing is
\* read and nothing is written
AfterErrorBroken(op) ==
  IF op.kind = "set"
    THEN [k \in DOMAIN storage \cup {op.key} |-> IF k = op.key THEN op.data ELSE storage[k]]
  ELSE IF op.kind = "remove"
    THEN [k \in DOMAIN storage \ {op.key} |-> storage[k]]
  ELSE storage
AfterError(op) == storage

\* chrome.storage.local ends the oldest call with chrome.runtime.lastError set
\* and runs its callback: lines 290-292 (save), 322-325 (load), 612-616,
\* 626-628 and 634-637 (migrate).
StorageFail ==
  /\ storageOps # <<>>
  /\ storageErrors < MaxErrors
  /\ storageErrors' = storageErrors + 1
  /\ LET op == Head(storageOps)
     IN /\ storage' = AfterError(op)
        /\ loadOps' = IF op.cb \in LoadCallbacks THEN loadOps + 1 ELSE loadOps
        /\ CASE op.cb = "load" ->
                  \* lines 322-325: return
                  /\ storageOps' = Tail(storageOps)
                  /\ lastLoad' = [result |-> "failed", data |-> NoRecord]
             [] op.cb = "migGet" ->
                  \* lines 612-616, resolve(false): no migration performed
                  AfterMigration(FALSE)
             [] op.cb = "migSet" ->
                  \* lines 626-628, resolve(false): the old key is kept
                  IF RemoveOldKey(op, TRUE) = <<>>
                    THEN AfterMigration(FALSE)
                    ELSE /\ storageOps' = Tail(storageOps) \o RemoveOldKey(op, TRUE)
                         /\ UNCHANGED lastLoad
             [] op.cb = "migRemove" ->
                  \* lines 634-637: a warning, resolve(true), load again
                  AfterMigration(TRUE)
             [] OTHER ->
                  /\ storageOps' = Tail(storageOps)
                  /\ UNCHANGED lastLoad
  /\ UNCHANGED <<pageUrl, videoEl, video, intervalOn, reloaded, saves, saveLog,
                 lastSaved, migrations>>
  /\ UNCHANGED resolverVars
  /\ UNCHANGED relayVars
  /\ UNCHANGED pageVars

\* the resolver when the specification is about the store only
ResolverIdle ==
  /\ inIframe = FALSE
  /\ referrer = EmptyString
  /\ clock = 0
  /\ res = [r \in 1..MaxRes |-> IdleRes]
  /\ toParent = <<>>
  /\ toFrame = <<>>
  /\ parentHandler = TRUE
  /\ responderListeners = 1
  /\ setupCalls = 1
  /\ strays = 0

LegacyRecord == PositionRecord(120, 600, 0)

\* The page has loaded and initVideoPositionManager has tracked its video:
\* the lookup of loadVideoPosition is under way.  The storage is empty or
\* holds a record that an earlier version wrote under the domain-only key.
StoreInit ==
  /\ ResolverIdle
  /\ RelayIdle
  /\ PageIdle
  /\ pageUrl \in PageUrls
  /\ videoEl \in VideoElements
  /\ \E d \in {600, NaN} : video = [currentTime |-> 0, duration |-> d, paused |-> TRUE]
  /\ intervalOn = FALSE
  /\ \E legacy \in {NoRecord, LegacyRecord} :
       storage = [k \in (IF legacy = NoRecord THEN {} ELSE {LegacyKeyOf(pageUrl, videoEl)})
                    |-> legacy]
  /\ storageOps = <<LoadCall>>
  /\ reloaded = FALSE
  /\ saves = 0
  /\ saveLog = NoSave
  /\ lastLoad = NoLoad
  /\ lastSaved = NoRecord
  /\ migrations = 0
  /\ loadOps = 0
  /\ storageErrors = 0

StoreNext ==
  \/ Play
  \/ \E t \in Times \cup {NaN} : Seek(t)
  \/ Pause
  \/ PeriodicSave
  \/ Ended
  \/ Reload
  \/ StorageComplete

StoreSpec == StoreInit /\ [][StoreNext]_vars

\* The store when storage calls may fail.
StoreFaultSpec ==
  StoreInit /\
  [][\/ \E t \in {0, 120} : Seek(t)
     \/ Reload
     \/ StorageComplete
     \/ StorageFail]_vars

\* The lookup of loadVideoPosition when a record lies under the video's own
\* key: one that this version saved, or one with a position of 0 or without a
\* readable position or duration, as other writers of the storage area leave
\* them (the earlier version of src/unnamed/part_004 stores no `timestamp`).
LoadInit ==
  /\ ResolverIdle
  /\ RelayIdle
  /\ PageIdle
  /\ pageUrl \in PageUrls
  /\ videoEl \in VideoElements
  /\ video = [currentTime |-> 0, duration |-> 600, paused |-> TRUE]
  /\ intervalOn = FALSE
  /\ \E t \in {NaN, 0, 120, 590, 595} : \E d \in {NaN, 0, 600} :
       storage = [k \in {VideoKey} |-> PositionRecord(t, d, 0)]
  /\ storageOps = <<LoadCall>>
  /\ reloaded = FALSE
  /\ saves = 0
  /\ saveLog = NoSave
  /\ lastLoad = NoLoad
  /\ lastSaved = NoRecord
  /\ migrations = 0
  /\ loadOps = 0
  /\ storageErrors = 0

LoadSpec ==
  LoadInit /\ [][(\E t \in {0, 120} : Seek(t)) \/ Reload \/ StorageComplete]_vars

(***************************************************************************)
(* The tracked video of an iframe.  Here generateVideoKey waits for        *)
(* getParentPageUrl, so saveVideoPosition is suspended at its await        *)
(* (line 274) until the promise is settled; the rest of the call runs as a *)
(* microtask of the event that settled it, before any other event.  The    *)
(* frame is taken up after setupVideoPositionTracking has run and its      *)
(* loadVideoPosition has found nothing.                                    *)
(***************************************************************************)
MaxFrameSaves == 1

\* no saveVideoPosition call is ready to go on, and the document is there
Runnable ==
  /\ ~unloaded
  /\ \A r \in 1..MaxRes : ~(res[r].state = "settled" /\ awaiting[r] # NoAwait)

\* saveVideoPosition(video) up to `await generateVideoKey(video)`, lines 266-274
FrameSave(r, event) ==
  /\ r <= MaxFrameSaves
  /\ GetParentPageUrl(r)
  /\ awaiting' = [awaiting EXCEPT ![r] = [event |-> event,
                                          currentTime |-> video.currentTime]]

\* the 'play' listener, lines 412-422
FramePlay ==
  /\ Runnable /\ ~unloading
  /\ video.paused
  /\ video' = [video EXCEPT !.paused = FALSE]
  /\ intervalOn' = TRUE
  /\ UNCHANGED <<pageUrl, videoEl, storage, storageOps, reloaded, saves,
                 saveLog, lastLoad, lastSaved, migrations, loadOps, storageErrors>>
  /\ UNCHANGED resolverVars
  /\ UNCHANGED relayVars
  /\ UNCHANGED pageVars

\* playback goes on
FrameSeek(t) ==
  /\ Runnable
  /\ ~video.paused
  /\ t > video.currentTime
  /\ Seek(t)

\* the two 'pause' listeners, lines 387-390 and 424-430
FramePause(r) ==
  /\ Runnable /\ ~unloading
  /\ ~video.paused
  /\ video' = [video EXCEPT !.paused = TRUE]
  /\ intervalOn' = FALSE
  /\ FrameSave(r, "pause")
  /\ UNCHANGED <<pageUrl, videoEl, storage, storageOps, reloaded, saves,
                 saveLog, lastLoad, lastSaved, migrations, loadOps, storageErrors>>
  /\ UNCHANGED relayVars
  /\ UNCHANGED <<unloading, unloaded, frameLog, ownerUrls, videoKeys,
                 readyState, boot, lastKey, lastReply>>

\* the setInterval callback, lines 415-420
FramePeriodicSave(r) ==
  /\ Runnable /\ ~unloading
  /\ intervalOn
  /\ ~video.paused
  /\ FrameSave(r, "periodic")
  /\ UNCHANGED storeVars
  /\ UNCHANGED relayVars
  /\ UNCHANGED <<unloading, unloaded, frameLog, ownerUrls, videoKeys,
                 readyState, boot, lastKey, lastReply>>

\* the 'beforeunload' listener, lines 400-407
BeforeUnload(r) ==
  /\ Runnable /\ ~unloading
  /\ unloading' = TRUE
  /\ FrameSave(r, "unload")
  /\ UNCHANGED storeVars
  /\ UNCHANGED relayVars
  /\ UNCHANGED <<unloaded, frameLog, ownerUrls, videoKeys,
                 readyState, boot, lastKey, lastReply>>

\* saveVideoPosition after the await, lines 274-299, for the call that
\* waited on getParentPageUrl call r
SaveResume(r) ==
  /\ ~unloaded
  /\ res[r].state = "settled"
  /\ awaiting[r] # NoAwait
  /\ LET videoKey == GenerateVideoKey(res[r].value, videoEl)
         currentTime == video.currentTime
     IN /\ IF ShouldSave(currentTime)
             THEN /\ storageOps' = Append(storageOps,
                       StorageCall("set", videoKey,
                                   PositionRecord(currentTime, video.duration, saves + 1),
                                   "save", NoKey))
                  /\ saves' = saves + 1
             ELSE UNCHANGED <<storageOps, saves>>
        /\ frameLog' = frameLog \cup
             {[event |-> awaiting[r].event, at |-> awaiting[r].currentTime,
               stored |-> ShouldSave(currentTime), wrote |-> currentTime]}
  /\ awaiting' = [awaiting EXCEPT ![r] = NoAwait]
  /\ UNCHANGED <<pageUrl, videoEl, video, intervalOn, storage, reloaded,
                 saveLog, lastLoad, lastSaved, migrations, loadOps, storageErrors>>
  /\ UNCHANGED resolverVars
  /\ UNCHANGED relayVars
  /\ UNCHANGED <<unloading, unloaded, ownerUrls, videoKeys,
                 readyState, boot, lastKey, lastReply>>

\* The navigation commits and the frame's document is discarded: its timers
\* and listeners go with it and a suspended call never goes on.
DocumentGone ==
  /\ Runnable
  /\ unloading
  /\ unloaded' = TRUE
  /\ res' = [r \in 1..MaxRes |->
               [res[r] EXCEPT !.listening = FALSE, !.timeoutArmed = FALSE,
                              !.retryArmed = FALSE]]
  /\ awaiting' = [r \in 1..MaxRes |-> NoAwait]
  /\ frameLog' = frameLog \cup
       {[event |-> awaiting[r].event, at |-> awaiting[r].currentTime,
         stored |-> FALSE, wrote |-> NaN] :
          r \in {q \in 1..MaxRes : awaiting[q] # NoAwait}}
  /\ UNCHANGED <<inIframe, referrer, clock, toParent, toFrame, parentHandler,
                 responderListeners, setupCalls, strays>>
  /\ UNCHANGED storeVars
  /\ UNCHANGED relayVars
  /\ UNCHANGED <<unloading, ownerUrls, videoKeys,
                 readyState, boot, lastKey, lastReply>>

FrameTrackInit ==
  /\ inIframe = TRUE
  /\ referrer \in Referrers
  /\ clock = 0
  /\ res = [r \in 1..MaxRes |-> IdleRes]
  /\ toParent = <<>>
  /\ toFrame = <<>>
  /\ parentHandler = TRUE
  /\ responderListeners = 1
  /\ setupCalls = 1
  /\ strays = 0
  /\ pageUrl = SelfUrl
  /\ videoEl = VideoWithId
  /\ video = [currentTime |-> 120, duration |-> 600, paused |-> TRUE]
  /\ intervalOn = FALSE
  /\ storage = [k \in {} |-> NoRecord]
  /\ storageOps = <<>>
  /\ reloaded = FALSE
  /\ saves = 0
  /\ saveLog = NoSave
  /\ lastLoad = NoLoad
  /\ lastSaved = NoRecord
  /\ migrations = 0
  /\ loadOps = 0
  /\ storageErrors = 0
  /\ RelayIdle
  /\ PageIdle

FrameTrackSpec ==
  FrameTrackInit /\
  [][\/ FramePlay
     \/ \E t \in {120, 240} : FrameSeek(t)
     \/ \E r \in 1..MaxRes : FramePause(r)
     \/ \E r \in 1..MaxRes : FramePeriodicSave(r)
     \/ \E r \in 1..MaxRes : BeforeUnload(r)
     \/ \E r \in 1..MaxRes : SaveResume(r)
     \/ DocumentGone
     \/ \E r \in 1..MaxRes : Runnable /\ TimeoutFire(r)
     \/ \E r \in 1..MaxRes : Runnable /\ RetryFire(r)
     \/ Runnable /\ FrameDeliver
     \/ ParentReceive
     \/ Runnable /\ Tick]_vars

(***************************************************************************)
(* generateVideoKey in two top-level documents of one site that hold the   *)
(* same video element.                                                     *)
(***************************************************************************)
KeyUrls ==
  {UrlText("https://site.example", p, q, h) :
     p \in {"/", "/watch", "/other"},
     q \in {<<>>, <<<<"v", "1">>>>, <<<<"v", "2">>>>, <<<<"v", "1">>, <<"t", "9">>>>},
     h \in {"", "#c"}}

\* generateVideoKey(video) in each of the two documents: getParentPageUrl
\* resolves with window.location.href (lines 136-138, 159)
GenerateKeys ==
  /\ ownerUrls # <<>>
  /\ videoKeys = <<>>
  /\ videoKeys' = [i \in 1..2 |-> GenerateVideoKey(Href(ParseURL(ownerUrls[i])), videoEl)]
  /\ UNCHANGED <<awaiting, unloading, unloaded, frameLog, ownerUrls,
                 readyState, boot, lastKey, lastReply>>
  /\ UNCHANGED resolverVars
  /\ UNCHANGED storeVars
  /\ UNCHANGED relayVars

KeyInit ==
  /\ ResolverIdle
  /\ StoreIdle
  /\ RelayIdle
  /\ awaiting = [r \in 1..MaxRes |-> NoAwait]
  /\ unloading = FALSE
  /\ unloaded = FALSE
  /\ frameLog = {}
  /\ ownerUrls \in KeyUrls \X KeyUrls
  /\ videoKeys = <<>>
  /\ readyState = "complete"
  /\ boot = NoBoot
  /\ lastKey = NoKeyPress
  /\ lastReply = NoReply

KeySpec == KeyInit /\ [][GenerateKeys]_vars

(***************************************************************************)
(* ControlRelay: controlIframeVideos in the top-level document and the     *)
(* message and keyboard handlers of the document in the first iframe.      *)
(* Volumes are in tenths and playback rates in hundredths, so that 0.1,    *)
(* 0.75 and 1.5 are the integers 1, 75 and 150.                            *)
(***************************************************************************)
\* commands in one behaviour: calls that post to iframes and key presses
MaxCommands == 3

SkipSeconds == 30
VolumeStep == 1
VolumeMax == 10
DefaultRate == 100
SpeedUpRate == 150
SpeedDownRate == 75
ClipLength == 100

Min(a, b) == IF a <= b THEN a ELSE b

\* a || b for numbers: 0 is falsy
OrElse(a, b) == IF a = 0 THEN b ELSE a

\* an iframe element: `matches` says whether its src holds one of the
\* substrings of findVideoIframes; win is "ok", "none" (contentWindow is
\* null) or "throws" (postMessage throws)
Iframe(matches, win) == [matches |-> matches, win |-> win]

IframeLayouts ==
  { <<>>,
    <<Iframe(TRUE, "ok")>>,
    <<Iframe(FALSE, "ok")>>,
    <<Iframe(TRUE, "none")>>,
    <<Iframe(TRUE, "ok"), Iframe(TRUE, "throws")>>,
    <<Iframe(TRUE, "throws"), Iframe(TRUE, "ok")>>,
    <<Iframe(TRUE, "throws"), Iframe(FALSE, "ok")>>,
    <<Iframe(FALSE, "ok"), Iframe(FALSE, "none")>> }

\* findVideoIframes(), lines 9-23: the indices of the iframes it returns
FindVideoIframes ==
  LET potential == {i \in 1..Len(iframes) : iframes[i].matches}
  IN IF potential # {} THEN potential ELSE 1..Len(iframes)

\* lines 95-105 of controlIframeVideos
IframeAction(action) ==
  IF action = "skipAhead" THEN "forward"
  ELSE IF action \in {"speedUp", "speedDown"} THEN "setPlaybackRate"
  ELSE action

OptionsRate(action, rate) ==
  IF action = "speedUp" THEN SpeedUpRate
  ELSE IF action = "speedDown" THEN SpeedDownRate
  ELSE rate

\* the message of lines 114-119; `again` is not part of the message: it
\* records that the sender posts the command it posted last once more
ControlMessage(action, seconds, rate, again) ==
  [type |-> "video-control", action |-> IframeAction(action),
   seconds |-> OrElse(seconds, SkipSeconds),
   rate |-> OrElse(OptionsRate(action, rate), DefaultRate),
   again |-> again]

\* return successCount > 0, line 131
ControlResultBroken(successCount) == successCount >= 0
ControlResult(successCount) == successCount > 0


\* controlIframeVideos(action, {seconds}), lines 84-132: what it posts and
\* what it returns
PostControl(action, seconds, again) ==
  LET targets == FindVideoIframes
      posted == {i \in targets : iframes[i].win = "ok"}
  IN /\ lastControl' = [called |-> TRUE, action |-> action, targets |-> targets,
                        posted |-> posted,
                        returned |-> IF targets = {} THEN FALSE
                                     ELSE ControlResult(Cardinality(posted))]
     /\ toIframe' = IF 1 \in posted
                      THEN Append(toIframe, ControlMessage(action, seconds, 0, again))
                      ELSE toIframe

\* a call of controlIframeVideos(action, {seconds}) in the top-level document
ControlIframeVideos(action, seconds, again) ==
  /\ controls + keys < MaxCommands
  /\ again => (lastControl.called /\ lastControl.action = action)
  /\ controls' = controls + 1
  /\ PostControl(action, seconds, again)
  /\ UNCHANGED <<iframes, frameVideos, toTop, keys, lastAssigned>>
  /\ UNCHANGED <<resolverVars, storeVars, pageVars>>

\* setupIframeCommunication(), lines 28-50: the setup message to a loaded iframe
SetupIframeCommunication ==
  /\ controls + keys < MaxCommands
  /\ controls' = controls + 1
  /\ toIframe' = IF Len(iframes) > 0 /\ iframes[1].win = "ok"
                   THEN Append(toIframe, [type |-> "setup-video-listener"])
                   ELSE toIframe
  /\ UNCHANGED <<iframes, frameVideos, toTop, keys, lastControl, lastAssigned>>
  /\ UNCHANGED <<resolverVars, storeVars, pageVars>>

\* the listener of setupIframeCommunication, lines 53-76: acknowledgments and
\* video info are logged, nothing is sent back
TopReceive ==
  /\ toTop # <<>>
  /\ toTop' = Tail(toTop)
  /\ UNCHANGED <<iframes, frameVideos, toIframe, controls, keys, lastControl,
                 lastAssigned>>
  /\ UNCHANGED <<resolverVars, storeVars, pageVars>>

(***************************************************************************)
(* ControlRelay, iframe side: setupIframeMessageHandler and                *)
(* setupIframeKeyboardShortcuts.                                           *)
(***************************************************************************)
FrameVideo(t, p, vol) ==
  [currentTime |-> t, duration |-> ClipLength, paused |-> p, volume |-> vol,
   playbackRate |-> DefaultRate]

\* Array.from(videos).find(v => !v.paused) || videos[0], lines 217 and 292
ActiveVideo(videos) ==
  IF \E i \in 1..Len(videos) : ~videos[i].paused
    THEN CHOOSE i \in 1..Len(videos) :
           ~videos[i].paused /\ \A j \in 1..(i - 1) : videos[j].paused
    ELSE 1

\* video.currentTime = x: the element seeks to x, held within [0, duration]
SetCurrentTime(v, x) == [v EXCEPT !.currentTime = Max(0, Min(x, v.duration))]

\* the value a video-control message makes the handler assign to
\* video.currentTime (lines 304, 308, 328)
ControlTarget(v, m) ==
  IF m.action \in {"forward", "skipAhead"}
    THEN v.currentTime + OrElse(m.seconds, SkipSeconds)
    ELSE v.currentTime - OrElse(m.seconds, SkipSeconds)

\* lines 303-334: the video after the action of message m
ApplyControl(v, m) ==
  IF m.action \in {"forward", "rewind", "skipAhead"}
    THEN SetCurrentTime(v, ControlTarget(v, m))
  ELSE IF m.action = "togglePlayPause"
    THEN [v EXCEPT !.paused = ~v.paused]
  ELSE IF m.action = "setPlaybackRate"
    THEN [v EXCEPT !.playbackRate = OrElse(m.rate, DefaultRate)]
  ELSE v

\* the acknowledgment of lines 338-344, read from the video after the action
AckBroken(m, before, after) ==
  [type |-> "video-control-ack", action |-> m.action,
   currentTime |-> before.currentTime, isPaused |-> before.paused,
   playbackRate |-> before.playbackRate]
Ack(m, before, after) ==
  [type |-> "video-control-ack", action |-> m.action,
   currentTime |-> after.currentTime, isPaused |-> after.paused,
   playbackRate |-> after.playbackRate]

\* lines 351-358
VideoInfo(videos, v) ==
  [type |-> "video-info", exists |-> TRUE, count |-> Len(videos),
   currentTime |-> v.currentTime, duration |-> v.duration, isPaused |-> v.paused]

\* One 'message' event in the frame: the listener of lines 284-361.
IframeReceive ==
  /\ toIframe # <<>>
  /\ toIframe' = Tail(toIframe)
  /\ LET m == Head(toIframe)
     IN IF Len(frameVideos) = 0
          THEN UNCHANGED <<frameVideos, toTop, lastAssigned>>
          ELSE LET i == ActiveVideo(frameVideos)
                   v == frameVideos[i]
               IN IF m.type = "video-control"
                    THEN /\ frameVideos' = [frameVideos EXCEPT ![i] = ApplyControl(v, m)]
                         /\ toTop' = Append(toTop, Ack(m, v, ApplyControl(v, m)))
                         /\ lastAssigned' =
                              IF m.action \in {"forward", "rewind", "skipAhead"}
                                THEN [by |-> "message", value |-> ControlTarget(v, m)]
                                ELSE lastAssigned
                    ELSE /\ toTop' = Append(toTop, VideoInfo(frameVideos, v))
                         /\ UNCHANGED <<frameVideos, lastAssigned>>
  /\ UNCHANGED <<iframes, controls, keys, lastControl>>
  /\ UNCHANGED <<resolverVars, storeVars, pageVars>>

\* the videos of the frame's document when the page has loaded
FrameDocuments ==
  { <<>>,
    <<FrameVideo(10, TRUE, VolumeMax)>>,
    <<FrameVideo(90, FALSE, 0)>>,
    <<FrameVideo(10, TRUE, 0), FrameVideo(50, FALSE, VolumeMax)>>,
    <<FrameVideo(90, TRUE, VolumeMax), FrameVideo(50, TRUE, VolumeMax)>> }


\* the value an Alt+Arrow key makes the handler assign to video.currentTime
\* (lines 223 and 234)
KeyTarget(v, code) ==
  IF code = "ArrowRight" THEN v.currentTime + SkipSeconds
  ELSE Max(0, v.currentTime - SkipSeconds)

\* lines 220-262: the video after the shortcut
ApplyKey(v, code) ==
  IF code \in {"ArrowRight", "ArrowLeft"} THEN SetCurrentTime(v, KeyTarget(v, code))
  ELSE IF code = "ArrowUp" THEN [v EXCEPT !.volume = Min(VolumeMax, v.volume + VolumeStep)]
  ELSE IF code = "ArrowDown" THEN [v EXCEPT !.volume = Max(0, v.volume - VolumeStep)]
  ELSE IF code = "KeyP" THEN [v EXCEPT !.paused = ~v.paused]
  ELSE v

\* One Alt+key 'keydown' event in the frame: keyHandler, lines 209-269.
KeyDown(code) ==
  /\ controls + keys < MaxCommands
  /\ Len(iframes) > 0
  /\ keys' = keys + 1
  /\ IF Len(frameVideos) = 0
       THEN UNCHANGED <<frameVideos, toTop, lastAssigned>>
       ELSE LET i == ActiveVideo(frameVideos)
                v == frameVideos[i]
            IN /\ frameVideos' = [frameVideos EXCEPT ![i] = ApplyKey(v, code)]
               /\ toTop' = IF code = "KeyN"
                             THEN Append(toTop, [type |-> "navigation",
                                                 action |-> "nextEpisode"])
                             ELSE toTop
               /\ lastAssigned' =
                    IF code \in {"ArrowRight", "ArrowLeft"}
                      THEN [by |-> "key", value |-> KeyTarget(v, code)]
                      ELSE lastAssigned
  /\ UNCHANGED <<iframes, toIframe, controls, lastControl>>
  /\ UNCHANGED <<resolverVars, storeVars, pageVars>>

\* The top-level document with its iframes; the document in the first iframe
\* has run initIframeVideoHandler (lines 369-406) and holds up to two videos.
RelayInit ==
  /\ ResolverIdle
  /\ StoreIdle
  /\ PageIdle
  /\ iframes \in IframeLayouts
  /\ frameVideos \in
       IF Len(iframes) = 0 THEN {<<>>}
       ELSE IF iframes # <<Iframe(TRUE, "ok")>> THEN {<<FrameVideo(10, TRUE, VolumeMax)>>}
       ELSE FrameDocuments
  /\ toIframe = <<>>
  /\ toTop = <<>>
  /\ controls = 0
  /\ keys = 0
  /\ lastControl = NoControl
  /\ lastAssigned = NoAssignment

RelaySpec ==
  RelayInit /\
  [][\/ \E action \in {"forward", "rewind", "togglePlayPause", "skipAhead", "speedUp", "speedDown"} :
        \E seconds \in {0, SkipSeconds} : \E again \in BOOLEAN :
          ControlIframeVideos(action, seconds, again)
     \/ SetupIframeCommunication
     \/ TopReceive
     \/ IframeReceive
     \/ \E code \in {"ArrowRight", "ArrowLeft", "ArrowUp", "ArrowDown", "KeyP", "KeyN"} :
          KeyDown(code)]_vars

(***************************************************************************)
(* Start-up of the content scripts in one document (modules/main.js), the  *)
(* handlers it installs there, and the Alt+Arrow keys and get-parent-url   *)
(* requests the document then receives.  inIframe tells whether the        *)
(* document is in an iframe, frameVideos are its video elements,           *)
(* parentHandler and responderListeners describe its own window, toParent  *)
(* holds the requests its child frames have posted to it and toFrame the   *)
(* replies posted back.                                                    *)
(***************************************************************************)
MaxRequests == 2

\* const isIframe = inIframe(), main.js line 26
IsIframeBroken == FALSE
IsIframe == inIframe

\* smartVideoControlsInitialized = true, main.js line 21
SetInitializedBroken == FALSE
SetInitialized == TRUE

\* VideoPositionManager.trackVideo(video) for the videos of the document
\* (setupVideoPositionTracking, videoPositionManager.js lines 375-443): every
\* call adds a 'pause' listener that saves and a 'play' listener that starts
\* a timer of its own; trackings counts those on the first video.
TrackVideo(b) ==
  IF Len(frameVideos) = 0 THEN b ELSE [b EXCEPT !.trackings = @ + 1]

\* initIframeVideoHandler, part_002 lines 369-405, with
\* setupIframeVideoListeners, lines 113-184, and
\* setupIframeKeyboardShortcuts, lines 190-278
InitIframeVideoHandler(b) ==
  IF inIframe /\ ~b.iframeHandlerInitialized
    THEN LET c == TrackVideo([b EXCEPT !.iframeHandlerInitialized = TRUE,
                                       !.iframeSetups = @ + 1])
         IN IF c.keyboardHandlerInstalled THEN c
            ELSE [c EXCEPT !.keyboardHandlerInstalled = TRUE,
                           !.keyListeners = Append(@, "iframeKeys")]
    ELSE b

\* initDirectVideoHandler, part_002 lines 581-622, with
\* setupDirectVideoListeners, lines 422-491
InitDirectVideoHandler(b) ==
  IF b.directHandlerInitialized THEN b
  ELSE TrackVideo([b EXCEPT !.directHandlerInitialized = TRUE, !.directSetups = @ + 1])

\* setupIframeCommunication(), parentPageHandler.js lines 28-77, when the
\* iframes of the document are `frames`: every call adds a 'load' listener to
\* each iframe it finds (loadListeners counts those of the first iframe) and
\* a 'message' listener to the window.
SetupCommunication(b, frames) ==
  [b EXCEPT !.messageListeners = @ + 1,
            !.loadListeners =
               IF /\ frames # <<>>
                  /\ frames[1].win # "none"
                  /\ (frames[1].matches \/ \A i \in 1..Len(frames) : ~frames[i].matches)
                 THEN @ + 1 ELSE @]

\* initParentPageHandler, parentPageHandler.js lines 137-163
InitParentPageHandler(b) ==
  IF ~inIframe THEN SetupCommunication([b EXCEPT !.parentSetups = @ + 1], iframes) ELSE b

\* An iframe is added to a top-level document: the MutationObserver of
\* initParentPageHandler (lines 143-159) calls setupIframeCommunication, which
\* also posts to the iframes that have loaded (lines 42-45).
IframeAdded ==
  /\ ~inIframe
  /\ boot.parentSetups > 0
  /\ boot.messageListeners <= MaxSetup
  /\ iframes' = Append(iframes, Iframe(TRUE, "ok"))
  /\ boot' = SetupCommunication(boot, iframes')
  /\ toIframe' = IF iframes # <<>> /\ iframes[1].win = "ok"
                   THEN Append(toIframe, [type |-> "setup-video-listener"])
                   ELSE toIframe
  /\ UNCHANGED <<frameVideos, toTop, controls, keys, lastControl, lastAssigned>>
  /\ UNCHANGED resolverVars
  /\ UNCHANGED storeVars
  /\ UNCHANGED <<awaiting, unloading, unloaded, frameLog, ownerUrls, videoKeys,
                 readyState, lastKey, lastReply>>

\* setupVideoControlShortcuts, part_003 lines 13-127
SetupVideoControlShortcuts(b) ==
  IF inIframe \/ b.parentShortcutsInitialized THEN b
  ELSE [b EXCEPT !.parentShortcutsInitialized = TRUE,
                 !.shortcutSetups = @ + 1,
                 !.keyListeners = Append(@, "shortcuts")]

\* setupMessageListener, main.js lines 119-142
SetupMessageListener(b) ==
  IF b.messageListenerAttached THEN b
  ELSE [b EXCEPT !.messageListenerAttached = TRUE, !.runtimeListeners = @ + 1]

\* the handlers of initializeSmartVideoControls, main.js lines 43-111
SetupHandlers(b) ==
  SetupMessageListener(
    IF IsIframe
      THEN InitIframeVideoHandler(b)
      ELSE SetupVideoControlShortcuts(InitParentPageHandler(InitDirectVideoHandler(b))))

\* runInitialization, main.js lines 264-269, and initializeSmartVideoControls,
\* lines 13-114, in a document whose flags and listeners are b.
\* setupParentUrlMessaging is called at line 32 and again from
\* VideoPositionManager.setup (line 37; videoPositionManager.js line 529),
\* which then tracks the videos of the document (lines 537-543).
RunInitialization(b) ==
  IF b.smartVideoControlsInitialized
    THEN /\ boot' = b
         /\ UNCHANGED <<parentHandler, responderListeners, setupCalls>>
    ELSE /\ boot' = SetupHandlers(
                      TrackVideo([b EXCEPT !.smartVideoControlsInitialized = SetInitialized,
                                           !.bodyRuns = @ + 1]))
         /\ LET w == SetupMessagingIn(~inIframe,
                       SetupMessagingIn(~inIframe,
                         [handler |-> parentHandler, listeners |-> responderListeners]))
            IN /\ parentHandler' = w.handler
               /\ responderListeners' = w.listeners
         /\ setupCalls' = setupCalls + 2

\* modules/main.js is evaluated, lines 271-282
MainScript ==
  /\ ~boot.scriptRun
  /\ LET b == [boot EXCEPT !.scriptRun = TRUE,
                           !.domListener = (readyState = "loading"),
                           !.loadListener = TRUE]
     IN IF readyState \in {"complete", "interactive"}
          THEN RunInitialization(b)
          ELSE /\ boot' = b
               /\ UNCHANGED <<parentHandler, responderListeners, setupCalls>>
  /\ UNCHANGED <<inIframe, referrer, clock, res, toParent, toFrame, strays>>
  /\ UNCHANGED storeVars
  /\ UNCHANGED relayVars
  /\ UNCHANGED <<awaiting, unloading, unloaded, frameLog, ownerUrls, videoKeys,
                 readyState, lastKey, lastReply>>

\* the document's DOMContentLoaded event (listener of main.js line 275)
DOMContentLoaded ==
  /\ readyState = "loading"
  /\ readyState' = "interactive"
  /\ IF boot.domListener
       THEN RunInitialization(boot)
       ELSE UNCHANGED <<boot, parentHandler, responderListeners, setupCalls>>
  /\ UNCHANGED <<inIframe, referrer, clock, res, toParent, toFrame, strays>>
  /\ UNCHANGED storeVars
  /\ UNCHANGED relayVars
  /\ UNCHANGED <<awaiting, unloading, unloaded, frameLog, ownerUrls, videoKeys, lastKey, lastReply>>

\* the window's load event (listener of main.js lines 280-282)
Load ==
  /\ readyState = "interactive"
  /\ readyState' = "complete"
  /\ boot' = IF boot.loadListener THEN [boot EXCEPT !.loadTimers = @ + 1] ELSE boot
  /\ UNCHANGED resolverVars
  /\ UNCHANGED storeVars
  /\ UNCHANGED relayVars
  /\ UNCHANGED <<awaiting, unloading, unloaded, frameLog, ownerUrls, videoKeys, lastKey, lastReply>>

\* the setTimeout callback of main.js line 281
LoadTimer ==
  /\ boot.loadTimers > 0
  /\ RunInitialization([boot EXCEPT !.loadTimers = @ - 1])
  /\ UNCHANGED <<inIframe, referrer, clock, res, toParent, toFrame, strays>>
  /\ UNCHANGED storeVars
  /\ UNCHANGED relayVars
  /\ UNCHANGED <<awaiting, unloading, unloaded, frameLog, ownerUrls, videoKeys,
                 readyState, lastKey, lastReply>>

\* document.querySelector("video") !== null, part_003 line 42
HasDirectVideoBroken(videos) == FALSE
HasDirectVideo(videos) == Len(videos) > 0

\* the value DirectVideoHandler.control("skipAhead" | "rewind", 30) assigns to
\* video.currentTime (part_002 lines 527-529 and 537-539; `(30).seconds` is
\* undefined, so the default of 30 is taken)
DirectTarget(v, code) ==
  IF code = "ArrowRight" THEN v.currentTime + SkipSeconds
  ELSE Max(0, v.currentTime - SkipSeconds)

\* One keydown listener of the document on an Alt+ArrowRight or Alt+ArrowLeft
\* event: the values it assigns to the active video's currentTime.
\* "iframeKeys" is keyHandler of part_002 lines 209-269, "shortcuts" the
\* listener of part_003 lines 31-126.
KeyAssignments(listener, videos, code) ==
  IF Len(videos) = 0 THEN <<>>
  ELSE LET v == videos[ActiveVideo(videos)]
       IN IF listener = "iframeKeys" THEN <<KeyTarget(v, code)>>
          ELSE IF inIframe THEN <<>>
          ELSE IF HasDirectVideo(videos) THEN <<DirectTarget(v, code)>>
          ELSE <<>>

\* e.stopImmediatePropagation(): both listeners call it when they have acted
\* (part_002 lines 228 and 239, part_003 lines 51 and 57)
StopsPropagation(listener, videos, code) == KeyAssignments(listener, videos, code) # <<>>

\* The keydown event goes through the listeners in the order they were added
\* until one stops it: the listeners that assigned, and the videos afterwards.
RECURSIVE Dispatch(_, _, _, _)
Dispatch(listeners, videos, code, done) ==
  IF listeners = <<>> THEN [videos |-> videos, assigned |-> done]
  ELSE LET l == Head(listeners)
           a == KeyAssignments(l, videos, code)
           i == ActiveVideo(videos)
           after == IF a = <<>> THEN videos
                    ELSE [videos EXCEPT ![i] = SetCurrentTime(videos[i], a[1])]
       IN IF StopsPropagation(l, videos, code)
            THEN [videos |-> after, assigned |-> done \o a]
            ELSE Dispatch(Tail(listeners), after, code, done \o a)

\* One Alt+ArrowRight or Alt+ArrowLeft keydown event in the document.  The
\* listener of part_003 sends the key to the iframes when the document has
\* no video (lines 98-111).
KeyPress(code) ==
  /\ controls + keys < MaxCommands
  /\ keys' = keys + 1
  /\ LET d == Dispatch(boot.keyListeners, frameVideos, code, <<>>)
     IN /\ frameVideos' = d.videos
        /\ lastKey' = [code |-> code, applied |-> Len(d.assigned), assigned |-> d.assigned]
  /\ IF /\ \E i \in 1..Len(boot.keyListeners) : boot.keyListeners[i] = "shortcuts"
        /\ ~inIframe
        /\ ~HasDirectVideo(frameVideos)
        /\ FindVideoIframes # {}
       THEN PostControl(IF code = "ArrowRight" THEN "forward" ELSE "rewind",
                        SkipSeconds, FALSE)
       ELSE UNCHANGED <<toIframe, lastControl>>
  /\ UNCHANGED <<iframes, toTop, controls, lastAssigned>>
  /\ UNCHANGED resolverVars
  /\ UNCHANGED storeVars
  /\ UNCHANGED <<awaiting, unloading, unloaded, frameLog, ownerUrls, videoKeys,
                 readyState, boot, lastReply>>

\* controlDirectVideo(action, options), part_002 lines 496-576: the videos
\* afterwards, the value assigned to currentTime and the result.  options is
\* an object with seconds or another value; `options.seconds` of a number is
\* undefined.
ControlDirectVideo(videos, action, options) ==
  IF Len(videos) = 0
    THEN [videos |-> videos, assigned |-> <<>>, success |-> FALSE]
    ELSE LET i == ActiveVideo(videos)
             v == videos[i]
             seconds == OrElse(IF options.isObject THEN options.seconds ELSE 0, SkipSeconds)
             target == IF action \in {"skipAhead", "forward"}
                         THEN v.currentTime + seconds
                         ELSE Max(0, v.currentTime - seconds)
         IN IF action \in {"skipAhead", "forward", "rewind"}
              THEN [videos |-> [videos EXCEPT ![i] = SetCurrentTime(v, target)],
                    assigned |-> <<target>>, success |-> TRUE]
            ELSE IF action = "togglePlayPause"
              THEN [videos |-> [videos EXCEPT ![i] = [v EXCEPT !.paused = ~v.paused]],
                    assigned |-> <<>>, success |-> TRUE]
            ELSE IF action = "speedUp"
              THEN [videos |-> [videos EXCEPT ![i] = [v EXCEPT !.playbackRate = @ + 25]],
                    assigned |-> <<>>, success |-> TRUE]
            ELSE IF action = "speedDown"
              THEN [videos |-> [videos EXCEPT ![i] =
                                  [v EXCEPT !.playbackRate = Max(25, @ - 25)]],
                    assigned |-> <<>>, success |-> TRUE]
            ELSE [videos |-> videos, assigned |-> <<>>, success |-> FALSE]

\* handleIframeCommands(request, sendResponse), main.js lines 181-203, in the
\* document of an iframe
HandleIframeCommands(action, seconds) ==
  /\ IF Len(frameVideos) = 0 \/ action \notin {"togglePlayPause", "skipAhead", "rewind"}
       THEN /\ lastReply' = [NoReply EXCEPT !.action = action, !.seconds = seconds]
            /\ UNCHANGED <<frameVideos, lastAssigned>>
       ELSE LET i == ActiveVideo(frameVideos)
                v == frameVideos[i]
                target == IF action = "skipAhead"
                            THEN v.currentTime + OrElse(seconds, SkipSeconds)
                            ELSE v.currentTime - OrElse(seconds, SkipSeconds)
            IN /\ frameVideos' =
                    [frameVideos EXCEPT ![i] =
                       IF action = "togglePlayPause" THEN [v EXCEPT !.paused = ~v.paused]
                       ELSE SetCurrentTime(v, target)]
               /\ lastAssigned' = IF action = "togglePlayPause" THEN lastAssigned
                                  ELSE [by |-> "command", value |-> target]
               /\ lastReply' = [answered |-> TRUE, success |-> TRUE, route |-> "direct",
                                action |-> action, seconds |-> seconds]
  /\ UNCHANGED <<toIframe, lastControl>>

\* handleParentPageCommands(request, sendResponse), main.js lines 208-261, in
\* a top-level document
HandleParentPageCommands(action, seconds) ==
  IF HasDirectVideo(frameVideos)
    THEN \* DirectVideoHandler.control(request.action, request.seconds), line 217
         LET result == ControlDirectVideo(frameVideos, action,
                                          [isObject |-> FALSE, seconds |-> seconds])
         IN /\ frameVideos' = result.videos
            /\ lastAssigned' = IF result.assigned = <<>> THEN lastAssigned
                               ELSE [by |-> "command", value |-> result.assigned[1]]
            /\ lastReply' = [answered |-> TRUE, success |-> result.success,
                             route |-> "direct", action |-> action, seconds |-> seconds]
            /\ UNCHANGED <<toIframe, lastControl>>
    ELSE IF FindVideoIframes # {}
      THEN \* controlIframeVideos(request.action, {seconds: request.seconds}), line 234
           /\ PostControl(action, seconds, FALSE)
           /\ lastReply' = [answered |-> TRUE, success |-> lastControl'.returned,
                            route |-> "iframe", action |-> action, seconds |-> seconds]
           /\ UNCHANGED <<frameVideos, lastAssigned>>
      ELSE \* sendResponse({ videoExists: false }), line 258
           /\ lastReply' = [answered |-> TRUE, success |-> FALSE, route |-> "none",
                            action |-> action, seconds |-> seconds]
           /\ UNCHANGED <<frameVideos, toIframe, lastControl, lastAssigned>>

\* The chrome.runtime.onMessage listener of main.js lines 128-139 receives a
\* command of the popup; request.seconds is 0 when the request has none.
ExtensionCommand(action, seconds) ==
  /\ boot.runtimeListeners > 0
  /\ controls + keys < MaxCommands
  /\ controls' = controls + 1
  /\ IF inIframe
       THEN HandleIframeCommands(action, seconds)
       ELSE HandleParentPageCommands(action, seconds)
  /\ UNCHANGED <<iframes, toTop, keys>>
  /\ UNCHANGED resolverVars
  /\ UNCHANGED storeVars
  /\ UNCHANGED <<awaiting, unloading, unloaded, frameLog, ownerUrls, videoKeys,
                 readyState, boot, lastKey>>

\* A child frame of the document posts a get-parent-url request to it
\* (videoPositionManager.js lines 117-121).
ChildRequest ==
  /\ strays < MaxRequests
  /\ strays' = strays + 1
  /\ toParent' = Append(toParent, Request(strays, FALSE))
  /\ UNCHANGED <<inIframe, referrer, clock, res, toFrame, parentHandler,
                 responderListeners, setupCalls>>
  /\ UNCHANGED storeVars
  /\ UNCHANGED relayVars
  /\ UNCHANGED pageVars

BootInit ==
  /\ inIframe \in BOOLEAN
  /\ referrer = EmptyString
  /\ clock = 0
  /\ res = [r \in 1..MaxRes |-> IdleRes]
  /\ toParent = <<>>
  /\ toFrame = <<>>
  /\ parentHandler = FALSE
  /\ responderListeners = 0
  /\ setupCalls = 0
  /\ strays = 0
  /\ StoreIdle
  /\ iframes = <<>>
  /\ frameVideos \in { <<>>,
                        <<FrameVideo(10, TRUE, VolumeMax)>>,
                        <<FrameVideo(10, TRUE, 0), FrameVideo(50, FALSE, VolumeMax)>> }
  /\ toIframe = <<>>
  /\ toTop = <<>>
  /\ controls = 0
  /\ keys = 0
  /\ lastControl = NoControl
  /\ lastAssigned = NoAssignment
  /\ awaiting = [r \in 1..MaxRes |-> NoAwait]
  /\ unloading = FALSE
  /\ unloaded = FALSE
  /\ frameLog = {}
  /\ ownerUrls = <<>>
  /\ videoKeys = <<>>
  /\ readyState \in {"loading", "interactive", "complete"}
  /\ boot = NoBoot
  /\ lastKey = NoKeyPress
  /\ lastReply = NoReply

BootSpec ==
  BootInit /\
  [][\/ MainScript
     \/ DOMContentLoaded
     \/ Load
     \/ LoadTimer
     \/ \E code \in {"ArrowRight", "ArrowLeft"} : KeyPress(code)
     \/ ChildRequest
     \/ ParentReceive]_vars

\* A document whose start-up is over: initializeSmartVideoControls has run
\* once (main.js lines 13-114) in an iframe or in a top-level document with
\* or without an iframe.
CommandInit ==
  /\ inIframe \in BOOLEAN
  /\ referrer = EmptyString
  /\ clock = 0
  /\ res = [r \in 1..MaxRes |-> IdleRes]
  /\ toParent = <<>>
  /\ toFrame = <<>>
  /\ parentHandler = ~inIframe
  /\ responderListeners = (IF inIframe THEN 0 ELSE 1)
  /\ setupCalls = 2
  /\ strays = 0
  /\ StoreIdle
  /\ iframes \in IF inIframe THEN {<<>>} ELSE {<<>>, <<Iframe(TRUE, "ok")>>}
  /\ frameVideos \in { <<>>,
                        <<FrameVideo(10, TRUE, VolumeMax)>>,
                        <<FrameVideo(10, TRUE, 0), FrameVideo(50, FALSE, VolumeMax)>> }
  /\ toIframe = <<>>
  /\ toTop = <<>>
  /\ controls = 0
  /\ keys = 0
  /\ lastControl = NoControl
  /\ lastAssigned = NoAssignment
  /\ awaiting = [r \in 1..MaxRes |-> NoAwait]
  /\ unloading = FALSE
  /\ unloaded = FALSE
  /\ frameLog = {}
  /\ ownerUrls = <<>>
  /\ videoKeys = <<>>
  /\ readyState = "complete"
  /\ boot = SetupHandlers(TrackVideo([NoBoot EXCEPT !.scriptRun = TRUE,
                                                    !.loadListener = TRUE,
                                                    !.smartVideoControlsInitialized = TRUE,
                                                    !.bodyRuns = 1]))
  /\ lastKey = NoKeyPress
  /\ lastReply = NoReply

\* the keys, the commands of the popup and the iframes added afterwards
CommandSpec ==
  CommandInit /\
  [][\/ \E code \in {"ArrowRight", "ArrowLeft"} : KeyPress(code)
     \/ \E action \in {"skipAhead", "rewind", "togglePlayPause"} : \E seconds \in {0, 10} :
          ExtensionCommand(action, seconds)
     \/ IframeAdded]_vars


(***************************************************************************)
(* Properties of the ParentUrlResolver.                                    *)
(***************************************************************************)
Slots == 1..MaxRes

\* C1: in an iframe, a call that never gets a reply still resolves: whenever
\* its timeout has fired it is settled, a call settled without any reply
\* holds the referrer if there is one and else the frame's own URL (never the
\* empty string), and every pending call is eventually settled.
C1_ResolvesWithoutReply ==
  /\ [](\A r \in Slots : res[r].timeoutFired => res[r].state = "settled")
  /\ [](\A r \in Slots :
          (res[r].state = "settled" /\ res[r].handled = 0) =>
            /\ res[r].value # EmptyString
            /\ res[r].value = (IF referrer # EmptyString THEN referrer ELSE SelfUrl))
  /\ \A r \in Slots : (res[r].state = "pending") ~> (res[r].state = "settled")

\* a call with no referrer was settled by its timeout with the frame's own URL
C1_Witness ==
  \E r \in Slots :
    /\ referrer = EmptyString
    /\ res[r].timeoutFired /\ res[r].by = "timeout" /\ res[r].handled = 0
    /\ res[r].value = SelfUrl

\* C2: a call settled by a parent-url-response holds the URL of the first
\* well-formed response the frame received after the call started, its handler
\* ran on exactly one response and is no longer registered, so a second answer
\* (to the retry) is not processed by it.
C2_FirstResponseWins ==
  \A r \in Slots :
    (res[r].state = "settled" /\ res[r].by = "response") =>
      /\ res[r].value = Href(ParseURL(res[r].firstValid))
      /\ res[r].handled = 1
      /\ res[r].lateHandled = 0
      /\ ~res[r].listening

\* both the original request and the retry were answered and delivered
C2_Witness ==
  \E r \in Slots :
    /\ Cardinality(res[r].sent) = 2
    /\ res[r].answers = 2
    /\ res[r].by = "response"
    /\ res[r].value = TopUrl

\* C3: a resolution settles once: a settled call stays settled with the same
\* value, and once a response has been accepted the timeout does not fire.
C3_SettlesOnce ==
  [][\A r \in Slots :
       /\ res[r].state = "settled" =>
            (res'[r].state = "settled" /\ res'[r].value = res[r].value)
       /\ res[r].by = "response" => ~res'[r].timeoutFired]_vars

\* the timeout fired first and a late response reached the handler afterwards
C3_Witness ==
  \E r \in Slots :
    /\ res[r].timeoutFired /\ res[r].by = "timeout"
    /\ res[r].lateHandled = 1
    /\ res[r].value = (IF referrer # EmptyString THEN referrer ELSE SelfUrl)

\* C4: a call settled by a parent-url-response was settled by a response whose
\* responseToRequest is the timestamp of a request that call sent.
C4_OnlyCorrelatedAccepted ==
  \A r \in Slots :
    res[r].by \in {"response", "malformed"} => res[r].corr \in res[r].sent

\* C5: when the responder handles a get-parent-url message it posts to the
\* frame a parent-url-response with the top document's URL and the request's
\* timestamp as responseToRequest, and its own state is unchanged.
C5_ResponderReplies ==
  [][(toParent # <<>> /\ parentHandler /\ toParent' = Tail(toParent)) =>
       /\ toFrame' = Append(toFrame,
            [type |-> "parent-url-response", url |-> TopUrl, timestamp |-> clock,
             responseToRequest |-> Head(toParent).timestamp])
       /\ parentHandler' = parentHandler
       /\ responderListeners' = responderListeners
       /\ setupCalls' = setupCalls]_vars

\* the original request and its retry have both been answered
C5_Witness ==
  \E r \in Slots :
    /\ Cardinality(res[r].sent) = 2
    /\ \A ts \in res[r].sent :
         \E i \in 1..Len(toFrame) : toFrame[i].responseToRequest = ts


(***************************************************************************)
(* Properties of the PositionStore.                                        *)
(***************************************************************************)
\* C6: a save at currentTime 0 or NaN writes nothing: no record in storage
\* and no write on its way holds the position 0 or NaN, and the latest save
\* call, if the video was at 0 or NaN, issued no write.
C6_NoZeroOrNaNSaved ==
  /\ \A k \in DOMAIN storage : storage[k].timestamp \notin {0, NaN}
  /\ \A i \in 1..Len(storageOps) :
       storageOps[i].kind = "set" => storageOps[i].data.timestamp \notin {0, NaN}
  /\ (saveLog.event # "none" /\ saveLog.currentTime \in {0, NaN}) => ~saveLog.wrote

\* a pause at position 0 went through saveVideoPosition and wrote nothing
C6_Witness ==
  /\ saveLog.event = "pause" /\ saveLog.currentTime = 0 /\ ~saveLog.wrote
  /\ storageOps = <<>>
  /\ VideoKey \notin DOMAIN storage

\* C7: no record in storage holds a position within the last 10 seconds of
\* its duration.
C7_NoTrailingWindowSaved ==
  \A k \in DOMAIN storage :
    ~(storage[k].duration # NaN /\ storage[k].timestamp # NaN
      /\ storage[k].timestamp > storage[k].duration - 10)

\* C8: the save of a pause at 595 of 600 writes nothing, and a load after a
\* reload does not find a record of 595 of 600 under the key.
C8_PauseAt595IsNoOp ==
  /\ (saveLog.event = "pause" /\ saveLog.currentTime = 595 /\ video.duration = 600)
       => ~saveLog.wrote
  /\ (reloaded /\ lastLoad.result \in {"resumed", "notResumed"})
       => ~(lastLoad.data.timestamp = 595 /\ lastLoad.data.duration = 600)

\* C9: a pause at 120 is saved, and when the lookup of load finds a resumable
\* record (position t > 0, not within the last 10 seconds of a known
\* duration) the video is set to max(0, t - 2).
C9_LoadRollsBack ==
  /\ []((saveLog.event = "pause" /\ saveLog.currentTime = 120) => saveLog.wrote)
  /\ [][(/\ storageOps # <<>>
         /\ Head(storageOps).cb = "load"
         /\ storageOps' = Tail(storageOps)
         /\ lastLoad'.result # "none"
         /\ Head(storageOps).key \in DOMAIN storage
         /\ LET t == storage[Head(storageOps).key].timestamp
                d == storage[Head(storageOps).key].duration
            IN t # NaN /\ t > 0 /\ ~(d # NaN /\ d # 0 /\ t > d - 10))
        => video'.currentTime =
             (IF storage[Head(storageOps).key].timestamp - 2 > 0
                THEN storage[Head(storageOps).key].timestamp - 2 ELSE 0)]_vars

\* the record saved at 120 of 600 was found after a reload and the video is at 118
C9_Witness ==
  /\ reloaded
  /\ lastLoad.result = "resumed"
  /\ lastLoad.data.timestamp = 120 /\ lastLoad.data.duration = 600
  /\ lastLoad.data.lastPlayed > 0
  /\ video.currentTime = 118

\* C10: the record under the video's key is the record of the most recently
\* completed save.
C10_RecordIsLastSave ==
  lastSaved # NoRecord => Stored(VideoKey) = lastSaved

\* C11: a record stored only under the old-format key (domain only, '#',
\* selector) is migrated by load: before any save, a lookup never ends with
\* "nothing saved" while the record still sits under the old-format key, and
\* no second migration is performed.
C11_OldRecordIsMigrated ==
  /\ (saves = 0 /\ lastLoad.result = "absent")
       => Stored(LegacyKeyOf(pageUrl, videoEl)) = NoRecord
  /\ migrations <= 1

\* C12: two calls of generateVideoKey for the same unchanged video and
\* document return the same key: the keys built from the owner URLs of any
\* two settled getParentPageUrl calls of the frame are equal.
C12_KeyIsDeterministic ==
  \A r1 \in Slots : \A r2 \in Slots :
    (res[r1].state = "settled" /\ res[r2].state = "settled") =>
      GenerateVideoKey(res[r1].value, videoEl) = GenerateVideoKey(res[r2].value, videoEl)


(***************************************************************************)
(* Properties of the ControlRelay.                                         *)
(***************************************************************************)
\* C13: when the frame handles a video-control message with action forward
\* and seconds = 30, the active video's currentTime grows by 30 (up to the
\* duration), and the position the handler assigns is neither below 0 nor
\* above the duration.
C13_ForwardAdds30 ==
  [][(/\ toIframe # <<>>
      /\ toIframe' = Tail(toIframe)
      /\ Len(frameVideos) > 0
      /\ Head(toIframe).type = "video-control"
      /\ Head(toIframe).action = "forward"
      /\ Head(toIframe).seconds = 30)
     => LET i == ActiveVideo(frameVideos)
            t == frameVideos[i].currentTime
            d == frameVideos[i].duration
        IN /\ frameVideos'[i].currentTime = (IF t + 30 <= d THEN t + 30 ELSE d)
           /\ lastAssigned'.by = "message"
           /\ lastAssigned'.value >= 0
           /\ lastAssigned'.value <= d]_vars

\* C14: whatever messages and shortcuts the frame has handled, the position
\* it assigned last is not negative, every volume is within [0, 1] and
\* every playback rate is above zero.
C14_BoundsChecked ==
  /\ lastAssigned.value >= 0
  /\ \A i \in 1..Len(frameVideos) :
       /\ frameVideos[i].volume >= 0
       /\ frameVideos[i].volume <= VolumeMax
       /\ frameVideos[i].playbackRate > 0

\* C15: when the frame, holding a video, handles a video-control message,
\* only the active video changes and exactly one message is posted to the
\* parent: a video-control-ack with the action and the active video's
\* currentTime, paused and playbackRate as they are after the action.
C15_AckAfterControl ==
  [][(/\ toIframe # <<>>
      /\ toIframe' = Tail(toIframe)
      /\ Len(frameVideos) > 0
      /\ Head(toIframe).type = "video-control")
     => LET i == IF \E k \in 1..Len(frameVideos) : ~frameVideos[k].paused
                   THEN CHOOSE k \in 1..Len(frameVideos) :
                          /\ ~frameVideos[k].paused
                          /\ \A j \in 1..(k - 1) : frameVideos[j].paused
                   ELSE 1
        IN /\ toTop' = Append(toTop,
                [type |-> "video-control-ack",
                 action |-> Head(toIframe).action,
                 currentTime |-> frameVideos'[i].currentTime,
                 isPaused |-> frameVideos'[i].paused,
                 playbackRate |-> frameVideos'[i].playbackRate])
           /\ \A j \in 1..Len(frameVideos) : j # i => frameVideos'[j] = frameVideos[j]
           /\ Len(frameVideos') = Len(frameVideos)]_vars

\* two commands were handled while the first acknowledgment was still
\* undelivered; both acted on the second of two videos, the playing one
C15_Witness ==
  /\ Len(toTop) = 2
  /\ Len(frameVideos) = 2
  /\ toTop[1].type = "video-control-ack" /\ toTop[1].action = "setPlaybackRate"
  /\ toTop[1].playbackRate = SpeedUpRate
  /\ toTop[2].type = "video-control-ack" /\ toTop[2].action = "forward"
  /\ toTop[2].currentTime = 80
  /\ frameVideos[2].currentTime = 80

\* C16: controlIframeVideos returns true exactly when it posted to at least
\* one iframe; it returns false without iframes; and it posts to every
\* iframe it targets whose window accepts the message, whatever happened
\* with the others.
C16_SuccessIffOneSent ==
  lastControl.called =>
    /\ lastControl.returned <=>
         (\E i \in lastControl.targets : iframes[i].win = "ok")
    /\ Len(iframes) = 0 => ~lastControl.returned
    /\ \A i \in lastControl.targets : iframes[i].win = "ok" => i \in lastControl.posted
    /\ lastControl.targets =
         (IF \E i \in 1..Len(iframes) : iframes[i].matches
            THEN {i \in 1..Len(iframes) : iframes[i].matches}
            ELSE 1..Len(iframes))

\* the send to the first iframe failed and the second iframe was still posted to
C16_Witness ==
  /\ lastControl.called
  /\ Len(iframes) = 2
  /\ iframes[1].win = "throws"
  /\ lastControl.targets = {1, 2}
  /\ lastControl.posted = {2}
  /\ lastControl.returned

\* C17: handling a video-control message that the sender posted a second
\* time leaves every video of the frame as it is.
C17_DuplicateHasNoEffect ==
  [][(/\ toIframe # <<>>
      /\ toIframe' = Tail(toIframe)
      /\ Len(frameVideos) > 0
      /\ Head(toIframe).type = "video-control"
      /\ Head(toIframe).again)
     => frameVideos' = frameVideos]_vars


(***************************************************************************)
(* Further properties of the ParentUrlResolver.                            *)
(***************************************************************************)
\* C18: in an iframe whose referrer has a path, a call of getParentPageUrl
\* still sends a get-parent-url request, and a well-formed response it
\* receives becomes its value.
C18_ReferrerIsProvisional ==
  \A r \in Slots :
    (res[r].state # "idle" /\ inIframe /\ referrer # EmptyString
     /\ ParseURL(referrer).pathname \notin {"", "/"}) =>
      /\ res[r].sent # {}
      /\ res[r].firstValid # EmptyString =>
           res[r].value = Href(ParseURL(res[r].firstValid))

\* C19: a call sends its request and at most one retry.  The retry timer,
\* when it runs, posts a request marked retry: true exactly if the handler
\* has seen no parent-url-response so far, and it runs no earlier than
\* 300 ms after the original request; a settled call posts nothing.
C19_AtMostOneRetry ==
  /\ [](\A r \in Slots : Cardinality(res[r].sent) <= 2)
  /\ [][\A r \in Slots :
          /\ (res[r].retryArmed /\ ~res'[r].retryArmed) =>
               /\ \A ts \in res[r].sent : clock >= ts + 300
               /\ IF res[r].handled = 0
                    THEN /\ toParent' = Append(toParent,
                                [type |-> "get-parent-url", from |-> SelfUrl,
                                 timestamp |-> clock, retry |-> TRUE])
                         /\ res[r].state = "pending"
                    ELSE toParent' = toParent
          /\ res[r].state = "settled" => res'[r].sent = res[r].sent]_vars

\* one call has sent its retry; another, started later, had seen a response
\* when its retry timer ran and sent nothing more
C19_Witness ==
  \E r1 \in Slots : \E r2 \in Slots :
    /\ Cardinality(res[r1].sent) = 2
    /\ res[r2].state # "idle" /\ ~res[r2].retryArmed
    /\ res[r2].receivedResponse
    /\ Cardinality(res[r2].sent) = 1

\* C20: a call never holds a URL that cannot be parsed, and when the handler
\* of a pending call gets a parent-url-response whose URL cannot be parsed,
\* the call settles with the referrer if there is one and else with the
\* frame's own URL.
C20_MalformedFallsBack ==
  /\ [](\A r \in Slots : res[r].state = "settled" => res[r].value.wellFormed)
  /\ [][\A r \in Slots :
          (/\ toFrame # <<>>
           /\ toFrame' = Tail(toFrame)
           /\ Head(toFrame).type = "parent-url-response"
           /\ ~Head(toFrame).url.wellFormed
           /\ res[r].state = "pending"
           /\ res[r].listening)
          => /\ res'[r].state = "settled"
             /\ res'[r].value = (IF referrer # EmptyString THEN referrer ELSE SelfUrl)]_vars

\* a call without a referrer got a response with an unparsable URL and holds
\* the frame's own URL
C20_Witness ==
  \E r \in Slots :
    /\ referrer = EmptyString
    /\ res[r].by = "malformed"
    /\ res[r].handled = 1
    /\ ~res[r].timeoutFired
    /\ res[r].value = SelfUrl


C22_StorageErrorIsSilent ==
  [][storageErrors' # storageErrors =>
       /\ storage' = storage
       /\ video' = video
       /\ Head(storageOps).cb \in {"load", "migGet", "migSet"} =>
            /\ storageOps' = Tail(storageOps)
            /\ lastLoad'.result \in {"failed", "absent"}
            /\ lastLoad'.data = NoRecord
       /\ Head(storageOps).cb = "save" => storageOps' = Tail(storageOps)]_vars

\* the copy to the new key failed during a migration: the record is still
\* under the old key only, and the load ended without a position
C22_Witness ==
  /\ storageErrors = 1
  /\ migrations = 0
  /\ lastLoad.result = "absent"
  /\ storageOps = <<>>
  /\ VideoKey \notin DOMAIN storage
  /\ LegacyKeyOf(pageUrl, videoEl) \in DOMAIN storage
  /\ videoEl = VideoWithSrc
  /\ video.currentTime = 0
  /\ loadOps = 3


\* C23: a load makes at most five storage calls (lookup, old key read, copy,
\* removal, second lookup); the lookup is repeated only after a migration
\* has copied a record; and while there is no record under the key nor under
\* an old-format key, the lookup and the old key read restore nothing and
\* the load ends without a position.
C23_LoadTerminates ==
  /\ [](loadOps <= 5)
  /\ [][(/\ storageOps # <<>>
         /\ loadOps' = loadOps + 1
         /\ storageOps' = Append(Tail(storageOps),
                                 [kind |-> "get", key |-> VideoKey, data |-> NoRecord,
                                  cb |-> "load", other |-> NoKey]))
        => (Head(storageOps).cb = "migRemove" /\ migrations = 1)]_vars
  /\ [][(/\ storageOps # <<>>
         /\ loadOps' = loadOps + 1
         /\ Stored(VideoKey) = NoRecord
         /\ Stored(LegacyKeyOf(pageUrl, videoEl)) = NoRecord
         /\ Stored(OldKeyOf(VideoKey)) = NoRecord)
        => /\ video' = video
           /\ \/ lastLoad'.result = "absent" /\ storageOps' = Tail(storageOps)
              \/ /\ lastLoad'.result = "migrating"
                 /\ Head(storageOps).cb = "load"
                 /\ Len(storageOps') = Len(storageOps)
                 /\ storageOps'[Len(storageOps')].kind = "get"]_vars

\* a load has run through lookup, old key read, copy, removal and second
\* lookup and resumed from the migrated record
C23_Witness ==
  /\ loadOps = 5
  /\ migrations = 1
  /\ lastLoad.result = "resumed"
  /\ lastLoad.data = LegacyRecord
  /\ storageOps = <<>>


\* C24: every pause, periodic tick and page unload at a resumable position
\* ends with a write of the position the video had at that event.
C24_EventIsStored ==
  \A e \in frameLog :
    (JsGt(e.at, 0) /\ ~IsNaN(e.at) /\ ~JsGt(e.at, 600 - TrailingWindow))
      => (e.stored /\ e.wrote = e.at)


\* C25: save, load and migrate for the tracked video never create, change or
\* delete the record stored under the key of a different video (here: the
\* videos of the site's pages other than the tracked one).
C25_OtherKeysUntouched ==
  [][\A u \in PageUrls : \A v \in VideoElements :
       LET k == GenerateVideoKey(u, v)
       IN k # VideoKey =>
            /\ (k \in DOMAIN storage) = (k \in DOMAIN storage')
            /\ k \in DOMAIN storage => storage'[k] = storage[k]]_vars


\* C26: two owner URLs that differ only in the hash fragment or in
\* parameters outside the allow-list give the same key for the same video;
\* two that differ in the path or in an allow-listed parameter give
\* different keys.
C26_KeyFollowsOwnerUrl ==
  videoKeys # <<>> =>
    LET a == ParseURL(ownerUrls[1])
        b == ParseURL(ownerUrls[2])
        alike == /\ a.origin = b.origin
                 /\ a.pathname = b.pathname
                 /\ ImportantOf(a.search) = ImportantOf(b.search)
    IN (videoKeys[1] = videoKeys[2]) <=> alike


\* C27: once the content scripts have started, an Alt+ArrowRight or
\* Alt+ArrowLeft keydown in a document with a video makes exactly one
\* assignment to the active video's currentTime, of the position plus 30 or
\* of the position minus 30 (not below 0), in an iframe as in a top-level
\* document; no other video is touched.
C27_KeyAppliedOnce ==
  [][(keys' = keys + 1 /\ boot.smartVideoControlsInitialized /\ frameVideos # <<>>)
       => LET i == ActiveVideo(frameVideos)
              v == frameVideos[i]
              target == IF lastKey'.code = "ArrowRight" THEN v.currentTime + 30
                        ELSE Max(0, v.currentTime - 30)
          IN /\ lastKey'.assigned = <<target>>
             /\ frameVideos' = [frameVideos EXCEPT ![i] = SetCurrentTime(v, target)]]_vars

\* Alt+ArrowRight in a top-level document with two videos has moved the
\* playing one from 50 to 80
C27_Witness ==
  /\ ~inIframe
  /\ keys = 1
  /\ lastKey = [code |-> "ArrowRight", applied |-> 1, assigned |-> <<80>>]
  /\ Len(frameVideos) = 2
  /\ frameVideos[2].currentTime = 80
  /\ frameVideos[1].currentTime = 10

\* C28: the body of initializeSmartVideoControls runs at most once in a
\* document, whatever triggers runInitialization, and at most one
\* chrome.runtime.onMessage listener is attached.
C28_InitializedOnce ==
  /\ boot.bodyRuns <= 1
  /\ boot.runtimeListeners <= 1
  /\ boot.smartVideoControlsInitialized => (boot.bodyRuns = 1 /\ boot.runtimeListeners = 1)

\* the script ran while the document was loading; DOMContentLoaded and the
\* timer of the load event have both called runInitialization
C28_Witness ==
  /\ boot.domListener
  /\ readyState = "complete"
  /\ boot.loadTimers = 0
  /\ boot.bodyRuns = 1
  /\ boot.runtimeListeners = 1

\* C29: in an iframe only IframeVideoHandler is set up; in a top-level
\* document DirectVideoHandler, ParentPageHandler and VideoControlShortcuts
\* are set up and IframeVideoHandler installs nothing.
C29_HandlersByContext ==
  /\ ~boot.smartVideoControlsInitialized =>
       /\ boot.keyListeners = <<>>
       /\ boot.iframeSetups + boot.directSetups + boot.parentSetups + boot.shortcutSetups = 0
  /\ (boot.smartVideoControlsInitialized /\ inIframe) =>
       /\ boot.iframeSetups = 1
       /\ boot.keyListeners = <<"iframeKeys">>
       /\ boot.directSetups = 0 /\ boot.parentSetups = 0 /\ boot.shortcutSetups = 0
       /\ ~boot.directHandlerInitialized /\ ~boot.parentShortcutsInitialized
  /\ (boot.smartVideoControlsInitialized /\ ~inIframe) =>
       /\ boot.directSetups = 1 /\ boot.parentSetups = 1 /\ boot.shortcutSetups = 1
       /\ boot.keyListeners = <<"shortcuts">>
       /\ boot.iframeSetups = 0
       /\ ~boot.iframeHandlerInitialized /\ ~boot.keyboardHandlerInstalled

\* a top-level document whose start-up is over
C29_Witness ==
  /\ ~inIframe
  /\ boot.smartVideoControlsInitialized
  /\ boot.directSetups = 1 /\ boot.parentSetups = 1 /\ boot.shortcutSetups = 1
  /\ boot.iframeSetups = 0
  /\ boot.loadTimers = 0 /\ readyState = "complete"

\* C30: after the calls of setupParentUrlMessaging a top-level window has
\* exactly one responder listener and answers each get-parent-url request
\* with exactly one parent-url-response; a window in an iframe never has a
\* responder listener.
C30_OneResponder ==
  /\ [](inIframe => (responderListeners = 0 /\ ~parentHandler))
  /\ []((~inIframe /\ setupCalls >= 1) => (responderListeners = 1 /\ parentHandler))
  /\ [][(/\ ~inIframe
         /\ setupCalls >= 1
         /\ toParent # <<>>
         /\ toParent' = Tail(toParent))
        => toFrame' = Append(toFrame, Response(TopUrl, clock, Head(toParent).timestamp))]_vars

\* a top-level window after two calls of setupParentUrlMessaging has
\* answered two requests with one reply each
C30_Witness ==
  /\ ~inIframe
  /\ setupCalls = 2
  /\ responderListeners = 1
  /\ strays = 2
  /\ toParent = <<>>
  /\ Len(toFrame) = 2
  /\ toFrame[1].responseToRequest = 0
  /\ toFrame[2].responseToRequest = 1


\* C31: migrate returns false (the lookup ends without a position) only when
\* no record lies under an old-format key of the video or when the old key is
\* the new key, and it then writes nothing; when it copies, the new key gets
\* the record that lies under the old-format key.
C31_MigrateCopiesMatch ==
  [][(storageOps # <<>> /\ Head(storageOps).cb \in LoadCallbacks) =>
       /\ (lastLoad'.result = "absent" /\ lastLoad.result # "absent") =>
            /\ \/ Stored(LegacyKeyOf(pageUrl, videoEl)) = NoRecord
               \/ LegacyKeyOf(pageUrl, videoEl) = VideoKey
            /\ storage' = storage
       /\ Head(storageOps).cb = "migSet" =>
            /\ Stored(LegacyKeyOf(pageUrl, videoEl)) # NoRecord
            /\ storage'[VideoKey] = Stored(LegacyKeyOf(pageUrl, videoEl))]_vars


\* C32: the periodic save timer of the tracked video is active only between
\* a play event and the next pause or ended event (never while the video is
\* paused after such an event), and a periodic save is written only by a
\* tick of the active timer while the video is not paused.
C32_TimerOnlyWhilePlaying ==
  /\ [](intervalOn => ~video.paused)
  /\ [][(saves' > saves /\ saveLog'.event = "periodic")
        => (intervalOn /\ ~video.paused /\ intervalOn' /\ ~video'.paused)]_vars
  /\ [][(video'.paused /\ ~video.paused) => ~intervalOn']_vars

\* a tick of the timer has saved while the video plays, after an earlier
\* save has been stored
C32_Witness ==
  /\ intervalOn
  /\ ~video.paused
  /\ saveLog.event = "periodic"
  /\ saveLog.wrote
  /\ saves = 2
  /\ lastSaved.lastPlayed = 1
  /\ storageOps # <<>>
  /\ Head(storageOps).cb = "save"


\* C33: in a top-level document a command of the popup or an Alt+Arrow
\* shortcut goes to the document's own video whenever it has one, and to the
\* iframes only when it has none: nothing is posted to an iframe by a step
\* that finds a video, no video is changed by a step that posts, and a
\* command that finds neither a video nor an iframe is answered with a
\* failure and changes nothing.
C33_RoutedToOneTarget ==
  [][(~inIframe /\ (controls' = controls + 1 \/ keys' = keys + 1)) =>
       /\ frameVideos # <<>> => (toIframe' = toIframe /\ lastControl' = lastControl)
       /\ toIframe' # toIframe =>
            (frameVideos = <<>> /\ iframes # <<>> /\ frameVideos' = frameVideos)
       /\ controls' = controls + 1 =>
            /\ lastReply'.answered
            /\ lastReply'.route = IF frameVideos # <<>> THEN "direct"
                                  ELSE IF iframes # <<>> THEN "iframe"
                                  ELSE "none"
            /\ frameVideos # <<>> =>
                 /\ lastReply'.success
                 /\ (lastAssigned'.by = "command" \/ frameVideos' # frameVideos)
            /\ (frameVideos = <<>> /\ iframes # <<>>) =>
                 (lastControl'.called /\ toIframe' # toIframe)
            /\ (frameVideos = <<>> /\ iframes = <<>>) =>
                 /\ ~lastReply'.success
                 /\ UNCHANGED <<frameVideos, toIframe, lastControl, lastAssigned>>
       /\ (keys' = keys + 1 /\ boot.keyListeners # <<>>) =>
            /\ frameVideos # <<>> => lastKey'.applied = 1
            /\ (frameVideos = <<>> /\ iframes # <<>>) => toIframe' # toIframe]_vars

\* a top-level document without a video has sent an Alt+ArrowRight key and
\* a command to its iframe, and answered the command
C33_Witness ==
  /\ ~inIframe
  /\ frameVideos = <<>>
  /\ Len(toIframe) = 2
  /\ lastKey.code = "ArrowRight"
  /\ lastKey.applied = 0
  /\ lastReply.answered
  /\ lastReply.success
  /\ lastReply.route = "iframe"


\* C34: when the lookup of load finds a record that is not resumable (its
\* position is 0 or NaN, or its position is above its duration minus 10
\* seconds), the callback leaves the video's currentTime as it is.
C34_NotResumableLeavesVideo ==
  [][(/\ storageOps # <<>>
      /\ Head(storageOps).cb = "load"
      /\ loadOps' = loadOps + 1
      /\ Head(storageOps).key \in DOMAIN storage
      /\ LET data == storage[Head(storageOps).key]
         IN \/ data.timestamp \in {0, NaN}
            \/ /\ data.duration \notin {0, NaN}
               /\ data.timestamp > data.duration - 10)
     => (video' = video /\ lastLoad'.result = "notResumed")]_vars

\* the lookup found a record at 595 of 600 after the user had moved the video
\* to 120, and left the video there
C34_Witness ==
  /\ lastLoad.result = "notResumed"
  /\ lastLoad.data.timestamp = 595
  /\ lastLoad.data.duration = 600
  /\ video.currentTime = 120
  /\ ~reloaded


\* C35: a record that lies under the old-format key when a load starts is
\* never lost, whether or not storage calls fail: at every state a record is
\* stored under the old key or under the new key, until a save has been
\* stored it is that very record, and the old key is removed only by the
\* removal that follows a completed copy, when the new key holds a record.
C35_RecordNeverLost ==
  /\ (Stored(LegacyKeyOf(pageUrl, videoEl)) = LegacyRecord) =>
       [](/\ \/ Stored(LegacyKeyOf(pageUrl, videoEl)) # NoRecord
             \/ Stored(VideoKey) # NoRecord
          /\ lastSaved = NoRecord =>
               \/ Stored(LegacyKeyOf(pageUrl, videoEl)) = LegacyRecord
               \/ Stored(VideoKey) = LegacyRecord)
  /\ [][(/\ Stored(LegacyKeyOf(pageUrl, videoEl)) # NoRecord
         /\ Stored(LegacyKeyOf(pageUrl, videoEl))' = NoRecord)
        => /\ Head(storageOps).kind = "remove"
           /\ migrations >= 1
           /\ Stored(VideoKey) # NoRecord
           /\ Stored(VideoKey)' # NoRecord]_vars

\* a migration has copied the record, removed the old key and ended, after a
\* storage call had failed
C35_Witness ==
  /\ migrations = 1
  /\ storageErrors = 1
  /\ LegacyKeyOf(pageUrl, videoEl) \notin DOMAIN storage
  /\ Stored(VideoKey) = LegacyRecord
  /\ storageOps = <<>>


\* C36: after the trackVideo calls of the start-up a video of the document
\* has at most one pause-save listener and one play listener that starts a
\* periodic save timer, so that one pause event calls save once.
C36_OneTrackingPerVideo == boot.trackings <= 1


\* C37: a resolution whose promise is settled has no message listener
\* registered any more: the registered listeners are those of the pending
\* resolutions.
C37_ListenerOnlyWhilePending ==
  \A r \in Slots : res[r].listening <=> res[r].state = "pending"


\* C38: however many iframes are added, the top-level document has a single
\* window message listener of setupIframeCommunication and the first iframe
\* a single load listener, so that a load of the iframe posts one
\* setup-video-listener message and a message of the iframe is handled once.
C38_OneCommunicationListener ==
  /\ boot.messageListeners <= 1
  /\ boot.loadListeners <= 1


\* C39: a skipAhead or rewind command with seconds = N moves the video it is
\* routed to by N seconds (within the video's length), and by 30 seconds
\* only when the command carries no seconds: on the direct route the video
\* of the document ends N seconds from where it was, on the iframe route the
\* message posted to the iframe carries N.
C39_SecondsHonoured ==
  [][(/\ ~inIframe
      /\ controls' = controls + 1
      /\ lastReply'.action \in {"skipAhead", "rewind"}) =>
       LET n == IF lastReply'.seconds = 0 THEN 30 ELSE lastReply'.seconds
           i == ActiveVideo(frameVideos)
       IN /\ frameVideos # <<>> =>
               frameVideos'[i].currentTime =
                 (IF lastReply'.action = "skipAhead"
                    THEN Min(frameVideos[i].currentTime + n, frameVideos[i].duration)
                    ELSE Max(0, frameVideos[i].currentTime - n))
          /\ (frameVideos = <<>> /\ toIframe' # toIframe) =>
               toIframe'[Len(toIframe')].seconds = n]_vars

====
